---- MODULE Spec2Model ----
(***************************************************************************)
(* A model of gst/h264parse/gsth264parse.c: the bit reader with            *)
(* emulation-prevention removal and Exp-Golomb decoding, the SPS/PPS       *)
(* store, the forward assembler, the reverse assembler with its decode     *)
(* queue, and the flush/reset handlers.                                    *)
(*                                                                         *)
(* Bytes are integers 0..255.  A 32-bit word (guint32 / gint) is kept as   *)
(* a pair of 16-bit halves [hi, lo], because the values the code handles   *)
(* reach 2^32 - 1.                                                         *)
(***************************************************************************)
EXTENDS Integers, Sequences, FiniteSets, TLC

VARIABLES
    \* --- the build ---
    build_shl32,    \* what this build makes of the undefined shift 1 << 32
    \* --- bit reader under study (GstNalBs) ---
    bs_data,        \* the byte range [data, end) the reader was built over
    bs,             \* the GstNalBs: pos (bytes consumed), head, cache
    bs_bits,        \* every bit returned so far, in order
    bs_last,        \* the last gst_nal_bs_read call: n asked, n got, value
    \* --- Exp-Golomb decode under study ---
    ue_v,           \* the integer that was encoded (or -1)
    ue_data,        \* the byte range handed to gst_nal_bs_read_ue
    ue_res,         \* the decode: done, the zero count i, the returned word
    \* --- the element (GstH264Parse) ---
    packetized,     \* h264parse->packetized
    nal_length_size,    \* h264parse->nal_length_size
    split_packetized,   \* h264parse->split_packetized
    src_caps,       \* GST_PAD_CAPS (h264parse->srcpad) is set
    adapter,        \* the bytes held by h264parse->adapter
    adapter_ts,     \* for each of them, the timestamp of the buffer it came in
    discont,        \* h264parse->discont
    rate,           \* the sign of h264parse->segment.rate
    gather,         \* h264parse->gather, head first (the newest chunk)
    prev,           \* h264parse->prev, <<>> for NULL
    decode,         \* h264parse->decode, head first
    decode_len,     \* h264parse->decode_len
    have_i_frame,   \* h264parse->have_i_frame
    pc,             \* where the running handler stands ("idle": none runs)
    rv,             \* the locals of a running gst_h264_parse_chain_reverse
    sps_buffers,    \* h->sps_buffers: the ids of its non-NULL entries to these
    pps_buffers,    \* h->pps_buffers, likewise
    h_sps,          \* h->sps as the id of the entry it points to, -1 for NULL
    h_pps,          \* h->pps, likewise
    dec,            \* the last parameter-set decode call
    out,            \* the units pushed on the source pad by the last handler call
    last,           \* the last handler call: which, its input, the state it found
    qb,             \* the last gst_h264_parse_queue_buffer call
    ncalls,         \* how many handler calls were made
    \* --- the input the upstream element delivers ---
    stream,         \* the bytes upstream will deliver, in order
    stream_pos,     \* how many of them it has delivered
    trace           \* the buffers delivered so far, each with the units pushed

bsVars == <<bs_data, bs, bs_bits, bs_last>>
ueVars == <<ue_v, ue_data, ue_res>>
cfgVars == <<packetized, nal_length_size, split_packetized, src_caps>>
fwdVars == <<adapter, adapter_ts, discont>>
revVars == <<gather, prev, decode, decode_len, have_i_frame, pc, rv, qb>>
inVars == <<stream, stream_pos, trace>>
storeVars == <<sps_buffers, pps_buffers, h_sps, h_pps, dec>>
elemVars == <<cfgVars, rate, fwdVars, revVars, storeVars, out, last, ncalls, inVars>>
vars == <<build_shl32, bsVars, ueVars, elemVars>>

(***************************************************************************)
(* 32-bit words                                                            *)
(***************************************************************************)
Pow2(k) == 2 ^ k

W32(hi, lo) == [hi |-> hi, lo |-> lo]

WZero == W32(0, 0)

WFromNat(v) == W32(v \div 65536, v % 65536)

\* addition modulo 2^32
WAdd(a, b) ==
    LET lo == a.lo + b.lo
    IN  W32((a.hi + b.hi + (lo \div 65536)) % 65536, lo % 65536)

\* 2^i - 1 for 0 <= i <= 32
WOnes(i) ==
    IF i <= 16 THEN W32(0, Pow2(i) - 1) ELSE W32(Pow2(i - 16) - 1, 65535)

RECURSIVE BitsToNat(_)
BitsToNat(bits) ==
    IF bits = <<>> THEN 0
    ELSE 2 * BitsToNat(SubSeq(bits, 1, Len(bits) - 1)) + bits[Len(bits)]

\* the word whose binary digits, most significant first, are bits (<= 32 of them)
WFromBits(bits) ==
    LET n == Len(bits)
    IN  IF n <= 16 THEN W32(0, BitsToNat(bits))
        ELSE W32(BitsToNat(SubSeq(bits, 1, n - 16)),
                 BitsToNat(SubSeq(bits, n - 15, n)))

(***************************************************************************)
(* GstNalBs: the bit reader                                                *)
(***************************************************************************)
\* the 64-bit cache as its eight bytes, most significant first
CacheInit == <<0, 0, 0, 0, 255, 255, 255, 255>>

gst_nal_bs_init(data) == [pos |-> 0, head |-> 0, cache |-> CacheInit]

\* (cache << 8) | byte
CachePush(cache, byte) == Tail(cache) \o <<byte>>

\* (cache & 0xffff) == 0
CacheLow16Zero(cache) == cache[7] = 0 /\ cache[8] = 0

\* bit k of the cache, k = 0 the least significant
CacheBit(cache, k) == (cache[8 - (k \div 8)] \div Pow2(k % 8)) % 2

\* the n bits of the cache that start shift bits above its low end, high first
CacheBits(cache, shift, n) == [j \in 1..n |-> CacheBit(cache, shift + n - j)]

\* the refill loop of gst_nal_bs_read: the reader once head >= n or the range
\* is exhausted, with n as the loop leaves it
RECURSIVE BsFill(_, _, _)
BsFill(b, data, n) ==
    IF b.head >= n THEN [bs |-> b, n |-> n]
    ELSE IF b.pos >= Len(data) THEN [bs |-> b, n |-> b.head]
    ELSE LET byte == data[b.pos + 1]
         IN  IF byte = 3 /\ CacheLow16Zero(b.cache)
             THEN \* the 03 is dropped, the next byte goes in unchecked
                  IF b.pos + 1 >= Len(data)
                  THEN [bs |-> [b EXCEPT !.pos = b.pos + 1], n |-> b.head]
                  ELSE BsFill([pos |-> b.pos + 2, head |-> b.head + 8,
                               cache |-> CachePush(b.cache, data[b.pos + 2])],
                              data, n)
             ELSE BsFill([pos |-> b.pos + 1, head |-> b.head + 8,
                          cache |-> CachePush(b.cache, byte)], data, n)

\* what gst_nal_bs_read does after its refill loop left f: the n bits above
\* the low head - n bits of the cache are taken
BsTakeBits(f, bits) ==
    [bs |-> [f.bs EXCEPT !.head = f.bs.head - f.n], n |-> f.n,
     bits |-> bits, res |-> WFromBits(bits)]

BsTake(f) == BsTakeBits(f, CacheBits(f.bs.cache, f.bs.head - f.n, f.n))

\* gst_nal_bs_read: the reader afterwards, the bits delivered (n of them after
\* truncation, most significant first) and the returned guint32
gst_nal_bs_read(b, data, n) ==
    IF n = 0 THEN [bs |-> b, n |-> 0, bits |-> <<>>, res |-> WZero]
    ELSE BsTake(BsFill(b, data, n))

gst_nal_bs_eos(b, data) == b.pos >= Len(data) /\ b.head = 0

\* the counting loop of gst_nal_bs_read_ue: reads one bit, stops on a 1 bit,
\* at the end of the range, or at i = 32
RECURSIVE UeCount(_, _, _)
UeCountStep(r, data, i) ==
    IF r.res = WZero /\ ~gst_nal_bs_eos(r.bs, data) /\ i < 32
    THEN UeCount(r.bs, data, i + 1)
    ELSE [bs |-> r.bs, i |-> i]

UeCount(b, data, i) == UeCountStep(gst_nal_bs_read(b, data, 1), data, i)

\* (1 << i) - 1.  For i = 32 the shift 1 << 32 is undefined in C; shl32 is
\* what the build makes of it (1 when the shift count is taken modulo 32, 0
\* when the bit is shifted out).
UeBase(i, shl32) ==
    IF i < 32 THEN WOnes(i) ELSE IF shl32 = 1 THEN WZero ELSE WOnes(32)

UeSum(r, i, base) == [bs |-> r.bs, i |-> i, res |-> WAdd(base, r.res)]

\* as UeValue, but with (1 << i) in place of (1 << i) - 1
Mut_UeValue(c, data, shl32) ==
    UeSum(gst_nal_bs_read(c.bs, data, c.i), c.i,
          WAdd(UeBase(c.i, shl32), W32(0, 1)))

UeValue(c, data, shl32) ==
    UeSum(gst_nal_bs_read(c.bs, data, c.i), c.i, UeBase(c.i, shl32))

\* gst_nal_bs_read_ue: (1 << i) - 1 + read(i) as a 32-bit word, i the number
\* of bits the counting loop read before it stopped
gst_nal_bs_read_ue(b, data, shl32) == UeValue(UeCount(b, data, 0), data, shl32)

\* the outcomes a build can give 1 << 32
ShlOutcomes == {0, 1}

(***************************************************************************)
(* Reference readers and encoders the bit reader is compared with          *)
(***************************************************************************)
\* the eight bits of a byte, most significant first
ByteBits(byte) == [j \in 1..8 |-> (byte \div Pow2(8 - j)) % 2]

RECURSIVE BytesBits(_)
BytesBits(bytes) ==
    IF bytes = <<>> THEN <<>> ELSE ByteBits(bytes[1]) \o BytesBits(Tail(bytes))

\* the byte range with each three-byte sequence 00 00 03 reduced to 00 00
RECURSIVE RefStrip(_)
RefStrip(bytes) ==
    IF Len(bytes) >= 3 /\ bytes[1] = 0 /\ bytes[2] = 0 /\ bytes[3] = 3
    THEN <<0, 0>> \o RefStrip(SubSeq(bytes, 4, Len(bytes)))
    ELSE IF bytes = <<>> THEN <<>>
    ELSE <<bytes[1]>> \o RefStrip(Tail(bytes))

\* what a plain MSB-first reader yields over the reduced range
RefBits(bytes) == BytesBits(RefStrip(bytes))

IsPrefix(s, t) == Len(s) <= Len(t) /\ s = SubSeq(t, 1, Len(s))

\* the binary digits of x in exactly w digits, most significant first
NatToBits(x, w) == [j \in 1..w |-> (x \div Pow2(w - j)) % 2]

\* floor(log2(x)) for x >= 1
RECURSIVE Log2(_)
Log2(x) == IF x <= 1 THEN 0 ELSE 1 + Log2(x \div 2)

\* the standard unsigned Exp-Golomb code of v: k zeros, then v + 1 in k + 1 digits
UeEncodeBits(v) ==
    LET k == Log2(v + 1)
    IN  [j \in 1..k |-> 0] \o NatToBits(v + 1, k + 1)

\* bits packed into bytes, zero-padded to a byte boundary
RECURSIVE BitsToBytes(_)
BitsToBytes(bits) ==
    IF bits = <<>> THEN <<>>
    ELSE IF Len(bits) < 8
         THEN <<BitsToNat(bits \o [j \in 1..(8 - Len(bits)) |-> 0])>>
         ELSE <<BitsToNat(SubSeq(bits, 1, 8))>>
              \o BitsToBytes(SubSeq(bits, 9, Len(bits)))

UeEncode(v) == BitsToBytes(UeEncodeBits(v))

(***************************************************************************)
(* The element: configuration and the forward path                         *)
(***************************************************************************)
NAL_SLICE == 1
NAL_SLICE_IDR == 5
NAL_SPS == 7
NAL_PPS == 8

StartCode == <<0, 0, 0, 1>>

\* a unit as the source pad receives it: its bytes and the two buffer flags
Unit(bytes, disc, delta) == [bytes |-> bytes, discont |-> disc, delta_unit |-> delta]

NoCall == [op |-> "none", discont |-> FALSE, chunk |-> <<>>, pre |-> <<>>]

\* a GstNalList link as g_slice_new0 and gst_nal_list_new leave it
gst_nal_list_new(buffer) ==
    [buffer |-> buffer, nal_type |-> 0, nal_ref_idc |-> 0,
     first_mb_in_slice |-> WZero, slice_type |-> WZero,
     slice |-> FALSE, i_frame |-> FALSE, oob |-> FALSE]

NoQb == [called |-> FALSE, link |-> gst_nal_list_new(<<>>), flushed |-> FALSE,
         pre_decode |-> <<>>, pushed |-> <<>>, post_decode |-> <<>>]

NoRv == [prev |-> <<>>, gbuf |-> <<>>, last |-> 0,
         code |-> <<255, 255, 255, 255>>, buffer |-> <<>>, eos |-> FALSE]

\* GstH264Sps and GstH264Pps as g_slice_new0 leaves them; the gboolean and
\* gint fields hold the number read into them
SpsNew ==
    [profile_idc |-> 0, level_idc |-> 0, sps_id |-> 0, pic_order_cnt_type |-> 0,
     log2_max_frame_num_minus4 |-> 0, frame_mbs_only_flag |-> 0,
     log2_max_pic_order_cnt_lsb_minus4 |-> 0, frame_cropping_flag |-> 0,
     vui_parameters_present_flag |-> 0, timing_info_present_flag |-> 0,
     num_units_in_tick |-> WZero, time_scale |-> WZero,
     fixed_frame_rate_flag |-> 0, nal_hrd_parameters_present_flag |-> 0,
     vcl_hrd_parameters_present_flag |-> 0, cpb_cnt_minus1 |-> 0,
     initial_cpb_removal_delay_length_minus1 |-> 0,
     cpb_removal_delay_length_minus1 |-> 0,
     dpb_output_delay_length_minus1 |-> 0, time_offset_length_minus1 |-> 0,
     pic_struct_present_flag |-> 0]

PpsNew == [pps_id |-> 0, sps_id |-> 0]

NoDec == [op |-> "none", data |-> <<>>, ret |-> FALSE,
          pre_sps |-> <<>>, pre_pps |-> <<>>]

\* the parameter-set tables as gst_h264_parse_init leaves them
StoreIdle ==
    /\ sps_buffers = <<>>
    /\ pps_buffers = <<>>
    /\ h_sps = -1
    /\ h_pps = -1
    /\ dec = NoDec

\* the reverse path's fields as gst_h264_parse_init leaves them
RevIdle ==
    /\ gather = <<>>
    /\ prev = <<>>
    /\ decode = <<>>
    /\ decode_len = 0
    /\ have_i_frame = FALSE
    /\ pc = "idle"
    /\ rv = NoRv
    /\ qb = NoQb

\* the element as gst_h264_parse_init leaves it, before caps are set
ElemIdle ==
    /\ packetized = FALSE
    /\ nal_length_size = 4
    /\ split_packetized = FALSE
    /\ src_caps = FALSE
    /\ rate = 1
    /\ adapter = <<>>
    /\ adapter_ts = <<>>
    /\ discont = FALSE
    /\ RevIdle
    /\ StoreIdle
    /\ out = <<>>
    /\ last = NoCall
    /\ ncalls = 0
    /\ stream = <<>>
    /\ stream_pos = 0
    /\ trace = <<>>

\* data[0] & 0x1f and (data[0] & 0x60) >> 5
NalType(byte) == byte % 32
NalRefIdc(byte) == (byte \div 32) % 4

\* the switch on slice_type: the I slice cases 2, 7, 4, 9
IsISliceType(w) == w.hi = 0 /\ w.lo \in {2, 7, 4, 9}

\* the scan of gst_h264_parse_chain_forward for the next 00 00 00 01, from
\* i = 1 while i < avail - 4; -1 when there is none.  First the same scan
\* begun at i = 0, where it meets the unit's own start code.
Mut_FwdNextStart(data) ==
    LET avail == Len(data)
        hits  == {i \in 0..(avail - 5) :
                     /\ data[i + 1] = 0 /\ data[i + 2] = 0
                     /\ data[i + 3] = 0 /\ data[i + 4] = 1}
    IN  IF hits = {} THEN -1 ELSE CHOOSE i \in hits : \A j \in hits : i <= j

FwdNextStart(data) ==
    LET avail == Len(data)
        hits  == {i \in 1..(avail - 5) :
                     /\ data[i + 1] = 0 /\ data[i + 2] = 0
                     /\ data[i + 3] = 0 /\ data[i + 4] = 1}
    IN  IF hits = {} THEN -1 ELSE CHOOSE i \in hits : \A j \in hits : i <= j

\* the big-endian length field: nalu_size = (nalu_size << 8) | data[i]
RECURSIVE BeWord(_)
BeWord(bytes) ==
    IF bytes = <<>> THEN WZero
    ELSE LET n == Len(bytes)
             lo == bytes[n] + (IF n >= 2 THEN 256 * bytes[n - 1] ELSE 0)
             hi == (IF n >= 3 THEN bytes[n - 2] ELSE 0)
                   + (IF n >= 4 THEN 256 * bytes[n - 3] ELSE 0)
         IN  W32(hi, lo)

\* a guint32 compared with a small non-negative int
WLeNat(w, n) == w.hi = 0 /\ w.lo <= n

\* the packetized branch: the NALU size after the fix-up, then next_nalu_pos
FwdPacketPos(data, nls, split) ==
    LET avail == Len(data)
        read  == BeWord(SubSeq(data, 1, nls))
        fishy == WLeNat(read, 1) \/ ~WLeNat(WAdd(read, W32(0, nls)), avail)
        size  == IF fishy THEN W32(0, avail - nls) ELSE read
        sum   == WAdd(size, W32(0, nls))
    IN  IF split
        THEN IF WLeNat(sum, avail) THEN sum.lo ELSE -1
        ELSE avail

\* "Figure out if this is a delta unit": data is the adapter's whole content.
\* First the same without the branch for SPS and PPS units.
Mut_FwdDeltaUnit(data, nls, shl32) ==
    LET hdr      == data[nls + 1]
        nal_type == NalType(hdr)
    IN  IF nal_type >= NAL_SLICE /\ nal_type <= NAL_SLICE_IDR
        THEN LET rest == SubSeq(data, nls + 2, Len(data))
                 mb   == gst_nal_bs_read_ue(gst_nal_bs_init(rest), rest, shl32)
                 st   == gst_nal_bs_read_ue(mb.bs, rest, shl32)
             IN  ~IsISliceType(st.res)
        ELSE TRUE

FwdDeltaUnit(data, nls, shl32) ==
    LET hdr      == data[nls + 1]
        nal_type == NalType(hdr)
    IN  IF nal_type >= NAL_SLICE /\ nal_type <= NAL_SLICE_IDR
        THEN LET rest == SubSeq(data, nls + 2, Len(data))
                 mb   == gst_nal_bs_read_ue(gst_nal_bs_init(rest), rest, shl32)
                 st   == gst_nal_bs_read_ue(mb.bs, rest, shl32)
             IN  ~IsISliceType(st.res)
        ELSE IF nal_type >= NAL_SPS /\ nal_type <= NAL_PPS
        THEN FALSE
        ELSE TRUE

\* the while loop of gst_h264_parse_chain_forward (every push returns
\* GST_FLOW_OK): the adapter, the discont flag and the units pushed
RECURSIVE FwdLoop(_, _, _, _, _, _, _)
FwdLoop(data, disc, outs, pkt, nls, split, shl32) ==
    IF Len(data) < nls + 1 THEN [adapter |-> data, discont |-> disc, out |-> outs]
    ELSE LET next_nalu_pos == IF ~pkt THEN FwdNextStart(data)
                              ELSE FwdPacketPos(data, nls, split)
             delta_unit == FwdDeltaUnit(data, nls, shl32)
         IN  IF next_nalu_pos > 0
             THEN FwdLoop(SubSeq(data, next_nalu_pos + 1, Len(data)), FALSE,
                          Append(outs, Unit(SubSeq(data, 1, next_nalu_pos),
                                            disc, delta_unit)),
                          pkt, nls, split, shl32)
             ELSE [adapter |-> data, discont |-> disc, out |-> outs]

\* the timestamps of the units one call pushes: each is given the call's
\* buffer timestamp (line 1142).  arrived is the timestamp of the buffer that
\* brought the unit's first byte: data_ts holds one timestamp for each byte
\* the adapter held when the loop began, off counts the bytes taken so far
RECURSIVE FwdStamps(_, _, _, _)
FwdStamps(outs, data_ts, off, ts) ==
    IF outs = <<>> THEN <<>>
    ELSE <<[timestamp |-> ts, arrived |-> data_ts[off + 1]]>>
            \o FwdStamps(Tail(outs), data_ts, off + Len(Head(outs).bytes), ts)

\* gst_h264_parse_chain, before it looks at the rate: without caps on the
\* source pad the default caps are set there and the byte-stream format is
\* assumed (the source pad has no setcaps function, gst_pad_set_caps succeeds)
ChainDefaultCaps ==
    IF src_caps THEN UNCHANGED cfgVars
    ELSE /\ src_caps' = TRUE
         /\ packetized' = FALSE
         /\ nal_length_size' = 4
         /\ UNCHANGED split_packetized

\* as FwdDiscont, but the buffer's flag is not looked at
Mut_FwdDiscont(disc) == discont

\* h264parse->discont after "if (discont)": raised by a buffer flagged
\* DISCONT, else as the last call left it
FwdDiscont(disc) == disc \/ discont

\* as FwdPushed, but the buffer is put in front of what the adapter holds
Mut_FwdPushed(disc, chunk) == chunk \o (IF disc THEN <<>> ELSE adapter)

\* the adapter after gst_adapter_clear, for a buffer flagged DISCONT, and
\* gst_adapter_push of the buffer
FwdPushed(disc, chunk) == (IF disc THEN <<>> ELSE adapter) \o chunk

\* gst_h264_parse_chain_forward (h264parse, disc, buffer), the buffer being
\* the bytes chunk with the timestamp ts; it runs after ChainDefaultCaps and
\* reads the format that left
gst_h264_parse_chain_forward(disc, chunk, ts) ==
    LET data_ts == (IF disc THEN <<>> ELSE adapter_ts)
                        \o [j \in 1..Len(chunk) |-> ts]
        r == FwdLoop(FwdPushed(disc, chunk),
                     FwdDiscont(disc), <<>>,
                     packetized', nal_length_size', split_packetized,
                     build_shl32)
    IN  /\ adapter' = r.adapter
        /\ adapter_ts' = SubSeq(data_ts, Len(data_ts) - Len(r.adapter) + 1,
                                Len(data_ts))
        /\ discont' = r.discont
        /\ out' = r.out
        /\ last' = [op |-> "chain_forward", discont |-> disc, chunk |-> chunk,
                    pre |-> adapter, timestamp |-> ts,
                    stamps |-> FwdStamps(r.out, data_ts, 0, ts)]

(***************************************************************************)
(* The reverse path: the decode queue, the gather list, the leftover       *)
(***************************************************************************)
\* as FlushUnits, but DISCONT is left on every buffer
Mut_FlushUnits(queue) ==
    [k \in 1..Len(queue) |-> Unit(queue[k].buffer, TRUE, ~queue[k].i_frame)]

\* gst_h264_parse_flush_decode: every link pushed in queue order, the first
\* with DISCONT set, each with DELTA_UNIT set unless its i_frame is set
FlushUnits(queue) ==
    [k \in 1..Len(queue) |-> Unit(queue[k].buffer, k = 1, ~queue[k].i_frame)]

\* first_mb_in_slice and slice_type as the two gst_nal_bs_read_ue calls of
\* gst_h264_parse_queue_buffer read them from the bytes after the NAL header
QueueSliceUe(rest, mb, shl32) ==
    [first_mb_in_slice |-> mb.res,
     slice_type |-> gst_nal_bs_read_ue(mb.bs, rest, shl32).res]

QueueSliceLink(link, ue) ==
    [link EXCEPT !.first_mb_in_slice = ue.first_mb_in_slice,
                 !.slice_type = ue.slice_type,
                 !.slice = TRUE,
                 !.i_frame = (link.i_frame \/ IsISliceType(ue.slice_type))]

\* what one turn of the NAL loop writes into the link from the NAL whose
\* header byte is hdr and whose remaining bytes are rest
QueueNal(link, hdr, rest, shl32) ==
    IF NalType(hdr) >= NAL_SLICE /\ NalType(hdr) <= NAL_SLICE_IDR
    THEN QueueSliceLink([link EXCEPT !.nal_ref_idc = NalRefIdc(hdr),
                                     !.nal_type = NalType(hdr)],
                        QueueSliceUe(rest,
                            gst_nal_bs_read_ue(gst_nal_bs_init(rest), rest, shl32),
                            shl32))
    ELSE [link EXCEPT !.nal_ref_idc = NalRefIdc(hdr), !.nal_type = NalType(hdr)]

\* the NAL loop of gst_h264_parse_queue_buffer over one buffer: off bytes
\* were walked, size remain.  A length field larger than what remains makes
\* the guint size wrap and the loop read past the buffer: oob marks that.
RECURSIVE QueueParse(_, _, _, _, _, _, _)
QueueAdvance(data, off, size, link, nalu_size, pkt, nls, shl32) ==
    IF ~pkt THEN link
    ELSE IF ~WLeNat(nalu_size, size - nls) THEN [link EXCEPT !.oob = TRUE]
    ELSE QueueParse(data, off + nls + nalu_size.lo, size - nls - nalu_size.lo,
                    link, pkt, nls, shl32)

QueueParse(data, off, size, link, pkt, nls, shl32) ==
    IF size < nls + 1 THEN link
    ELSE QueueAdvance(data, off, size,
            QueueNal(link, data[off + nls + 1],
                     SubSeq(data, off + nls + 2, off + size), shl32),
            IF pkt THEN BeWord(SubSeq(data, off + 1, off + nls)) ELSE WZero,
            pkt, nls, shl32)

\* as QueueFlushes, but without the look at have_i_frame
Mut_QueueFlushes(link) == ~link.i_frame /\ link.slice

\* as QueueLink, but a flush leaves have_i_frame as it is
Mut_QueueLink(link, flush) ==
    /\ out' = out \o (IF flush THEN FlushUnits(decode) ELSE <<>>)
    /\ have_i_frame' = (link.i_frame \/ have_i_frame)
    /\ decode' = <<link>> \o (IF flush THEN <<>> ELSE decode)
    /\ decode_len' = (IF flush THEN decode_len - Len(decode) ELSE decode_len) + 1
    /\ qb' = [called |-> TRUE, link |-> link, flushed |-> flush,
              pre_decode |-> decode,
              pushed |-> IF flush THEN FlushUnits(decode) ELSE <<>>,
              post_decode |-> <<link>> \o (IF flush THEN <<>> ELSE decode)]

\* the end of gst_h264_parse_queue_buffer: the queue is flushed when it holds
\* an I frame and the new link is a slice that is not one; the link is
\* prepended
QueueLink(link, flush) ==
    /\ out' = out \o (IF flush THEN FlushUnits(decode) ELSE <<>>)
    /\ have_i_frame' = (link.i_frame \/ (~flush /\ have_i_frame))
    /\ decode' = <<link>> \o (IF flush THEN <<>> ELSE decode)
    /\ decode_len' = (IF flush THEN decode_len - Len(decode) ELSE decode_len) + 1
    /\ qb' = [called |-> TRUE, link |-> link, flushed |-> flush,
              pre_decode |-> decode,
              pushed |-> IF flush THEN FlushUnits(decode) ELSE <<>>,
              post_decode |-> <<link>> \o (IF flush THEN <<>> ELSE decode)]

QueueFlushes(link) == have_i_frame /\ ~link.i_frame /\ link.slice

\* as QueueParsed, but the queue is never flushed
Mut_QueueParsed(link) == QueueLink(link, FALSE)

QueueParsed(link) == QueueLink(link, QueueFlushes(link))

\* what the NAL loop can leave in the link: what it parsed, or, once it ran
\* past the buffer, that with whatever the bytes behind the buffer made of
\* the two flags (the loop sets them and never clears them, i_frame only
\* together with slice)
QueueOutcomes(link) ==
    IF ~link.oob THEN {link}
    ELSE {[link EXCEPT !.slice = sl, !.i_frame = i] :
            sl \in {b \in BOOLEAN : link.slice => b},
            i \in {b \in BOOLEAN : link.i_frame => b}}
            \ {[link EXCEPT !.slice = FALSE, !.i_frame = TRUE]}

\* gst_h264_parse_queue_buffer (parse, buffer)
gst_h264_parse_queue_buffer(buffer) ==
    \E link \in QueueOutcomes(
                    QueueParse(buffer, 0, Len(buffer), gst_nal_list_new(buffer),
                               packetized, nal_length_size, build_shl32)) :
        QueueParsed(link)

\* gst_h264_parse_find_start_reverse: the search accumulator is kept as its
\* four bytes; start is -1 when the scan reached the buffer's start
RECURSIVE gst_h264_parse_find_start_reverse(_, _, _)
gst_h264_parse_find_start_reverse(data, size, code) ==
    IF size = 0 THEN [start |-> -1, code |-> code]
    ELSE LET search == Tail(code) \o <<data[size]>>
         IN  IF search = <<1, 0, 0, 0>>
             THEN [start |-> size - 1, code |-> search]
             ELSE gst_h264_parse_find_start_reverse(data, size - 1, search)

\* as RevJoin, but the leftover is dropped
Mut_RevJoin(gbuf, leftover) == gbuf

\* "if (prev) gbuf = gst_buffer_join (gbuf, prev)": the leftover of the buffer
\* scanned before, which is later in the stream, goes behind the new buffer
RevJoin(gbuf, leftover) == gbuf \o leftover

\* the whole of "while (last > 0)" over one buffer: the buffers handed to
\* gst_h264_parse_queue_buffer, in the order handed, and the leftover
RECURSIVE RevSplit(_, _, _, _)
RevSplitFound(gbuf, stop, f, units) ==
    IF f.start # -1
    THEN RevSplit(gbuf, f.start, f.code,
                  Append(units, SubSeq(gbuf, f.start + 1, stop)))
    ELSE [units |-> units, prev |-> SubSeq(gbuf, 1, stop)]

RevSplit(gbuf, stop, code, units) ==
    IF stop = 0 THEN [units |-> units, prev |-> <<>>]
    ELSE RevSplitFound(gbuf, stop,
            gst_h264_parse_find_start_reverse(gbuf, stop, code), units)

\* as RevGather, but the buffer goes to the end of the list
Mut_RevGather(buffer, list) == list \o <<buffer>>

\* "h264parse->gather = g_list_prepend (h264parse->gather, buffer)"
RevGather(buffer, list) == <<buffer>> \o list

\* gst_h264_parse_chain_reverse (h264parse, disc, buffer), its entry: without
\* discont the buffer is only prepended to the gather list; with discont the
\* gathered buffers are first moved to the decode queue, one step at a time
RevEnter(disc, buffer, eos) ==
    /\ pc = "idle"
    /\ out' = <<>>
    /\ last' = [op |-> IF eos THEN "eos" ELSE "chain_reverse", discont |-> disc,
                chunk |-> buffer,
                pre |-> [gather |-> gather, decode |-> decode, prev |-> prev,
                         have_i_frame |-> have_i_frame]]
    /\ ncalls' = ncalls + 1
    /\ IF disc
       THEN /\ rv' = [NoRv EXCEPT !.prev = prev, !.buffer = buffer, !.eos = eos]
            /\ prev' = <<>>
            /\ pc' = "drain"
            /\ UNCHANGED <<gather, decode, decode_len, have_i_frame, qb>>
       ELSE /\ gather' = RevGather(buffer, gather)
            /\ UNCHANGED <<prev, decode, decode_len, have_i_frame, pc, rv, qb>>

\* one turn of "while (h264parse->gather)", or what follows the loop
RevDrain ==
    /\ pc = "drain"
    /\ IF gather = <<>>
       THEN /\ prev' = rv.prev
            /\ gather' = IF rv.buffer # <<>> THEN RevGather(rv.buffer, gather)
                          ELSE gather
            /\ pc' = IF rv.eos THEN "eos_flush" ELSE "idle"
            /\ rv' = NoRv
            /\ UNCHANGED <<decode, decode_len, have_i_frame, qb, out>>
       ELSE /\ gather' = Tail(gather)
            /\ IF packetized
               THEN /\ gst_h264_parse_queue_buffer(Head(gather))
                    /\ UNCHANGED <<prev, pc, rv>>
               ELSE /\ rv' = [rv EXCEPT !.gbuf = RevJoin(Head(gather), rv.prev),
                                        !.prev = <<>>,
                                        !.last = Len(RevJoin(Head(gather), rv.prev)),
                                        !.code = <<255, 255, 255, 255>>]
                    /\ pc' = IF Len(RevJoin(Head(gather), rv.prev)) > 0
                             THEN "scan" ELSE "drain"
                    /\ UNCHANGED <<prev, decode, decode_len, have_i_frame, qb, out>>
    /\ UNCHANGED <<last, ncalls>>

\* one turn of "while (last > 0)": a start code found backwards from last
\* gives one unit to the decode queue; none found keeps the rest as leftover
RevScan ==
    /\ pc = "scan"
    /\ LET f == gst_h264_parse_find_start_reverse(rv.gbuf, rv.last, rv.code)
       IN  IF f.start # -1
           THEN /\ gst_h264_parse_queue_buffer(SubSeq(rv.gbuf, f.start + 1, rv.last))
                /\ rv' = [rv EXCEPT !.last = f.start, !.code = f.code]
                /\ pc' = IF f.start > 0 THEN "scan" ELSE "drain"
           ELSE /\ rv' = [rv EXCEPT !.prev = SubSeq(rv.gbuf, 1, rv.last),
                                    !.gbuf = <<>>, !.code = f.code]
                /\ pc' = "drain"
                /\ UNCHANGED <<decode, decode_len, have_i_frame, qb, out>>
    /\ UNCHANGED <<gather, prev, last, ncalls>>

\* as gst_h264_parse_flush_decode, but have_i_frame is left as it is
Mut_gst_h264_parse_flush_decode ==
    /\ out' = out \o FlushUnits(decode)
    /\ decode' = <<>>
    /\ decode_len' = decode_len - Len(decode)
    /\ UNCHANGED have_i_frame

\* gst_h264_parse_flush_decode (h264parse)
gst_h264_parse_flush_decode ==
    /\ out' = out \o FlushUnits(decode)
    /\ decode' = <<>>
    /\ decode_len' = decode_len - Len(decode)
    /\ have_i_frame' = FALSE

\* GST_EVENT_EOS with segment.rate < 0, after its chain_reverse (TRUE, NULL)
RevEosFlush ==
    /\ pc = "eos_flush"
    /\ gst_h264_parse_flush_decode
    /\ pc' = "idle"
    /\ UNCHANGED <<gather, prev, rv, qb, last, ncalls>>

(***************************************************************************)
(* The parameter-set store and the SPS/PPS decoders                        *)
(***************************************************************************)
MAX_SPS_COUNT == 32
MAX_PPS_COUNT == 256

\* gst_h264_parse_get_sps (h, sps_id): NULL (ok false) for an id out of range,
\* else the entry, created zeroed when it was NULL; h->sps is set to it
gst_h264_parse_get_sps(tbl, cur, sps_id) ==
    IF sps_id >= MAX_SPS_COUNT THEN [ok |-> FALSE, tbl |-> tbl, cur |-> cur]
    ELSE [ok |-> TRUE,
          tbl |-> IF sps_id \in DOMAIN tbl THEN tbl ELSE (sps_id :> SpsNew) @@ tbl,
          cur |-> sps_id]

\* gst_h264_parse_get_pps (h, pps_id)
gst_h264_parse_get_pps(tbl, cur, pps_id) ==
    IF pps_id >= MAX_PPS_COUNT THEN [ok |-> FALSE, tbl |-> tbl, cur |-> cur]
    ELSE [ok |-> TRUE,
          tbl |-> IF pps_id \in DOMAIN tbl THEN tbl ELSE (pps_id :> PpsNew) @@ tbl,
          cur |-> pps_id]

\* A decoder at work: c.bs is the reader, c.v the value of the last read,
\* c.sps the entry h->sps points to, c.ok whether that pointer is not NULL
\* (a write through a NULL h->sps is undefined and marked in c.null_write).
SpsCtx(b, sps, ok) == [bs |-> b, v |-> WZero, sps |-> sps, ok |-> ok,
                       null_write |-> FALSE]

ReadInto(c, r) == [c EXCEPT !.bs = r.bs, !.v = r.res]

\* gst_nal_bs_read (bs, n) and gst_nal_bs_read_ue (bs) on the decoder's reader
Rd(c, d, n) == ReadInto(c, gst_nal_bs_read(c.bs, d, n))
RdUe(c, d, shl32) == ReadInto(c, gst_nal_bs_read_ue(c.bs, d, shl32))

\* sps->f = the value just read, as a guint8, as an int, as a guint32
SetField(c, f, val) ==
    IF c.ok THEN [c EXCEPT !.sps = [c.sps EXCEPT ![f] = val]]
    ELSE [c EXCEPT !.null_write = TRUE]
SetU8(c, f) == SetField(c, f, c.v.lo % 256)
SetInt(c, f) == SetField(c, f, c.v.lo)

\* the loop of gst_vui_decode_hrd_parameters over sched_sel_idx
RECURSIVE HrdSched(_, _, _, _)
HrdSched(c, d, shl32, sched_sel_idx) ==
    IF sched_sel_idx > c.sps.cpb_cnt_minus1 THEN c
    ELSE HrdSched(Rd(RdUe(RdUe(c, d, shl32), d, shl32), d, 1), d, shl32,
                  sched_sel_idx + 1)

HrdLengths(c, d) ==
    SetInt(Rd(
      SetInt(Rd(
        SetInt(Rd(
          SetInt(Rd(c, d, 5), "initial_cpb_removal_delay_length_minus1"),
          d, 5), "cpb_removal_delay_length_minus1"),
        d, 5), "dpb_output_delay_length_minus1"),
      d, 5), "time_offset_length_minus1")

HrdAfterCpbCnt(c, d, shl32) ==
    IF c.sps.cpb_cnt_minus1 > 31 THEN c
    ELSE HrdLengths(HrdSched(Rd(Rd(c, d, 4), d, 4), d, shl32, 0), d)

\* gst_vui_decode_hrd_parameters (h, bs); its result is ignored by its caller
gst_vui_decode_hrd_parameters(c, d, shl32) ==
    HrdAfterCpbCnt(SetU8(RdUe(c, d, shl32), "cpb_cnt_minus1"), d, shl32)

\* gst_sps_decode_vui, its parts in order: each reads a flag and what the
\* flag announces
VuiSar(c, d) ==
    IF c.v = WFromNat(255) THEN Rd(Rd(c, d, 16), d, 16) ELSE c
VuiAspectIf(c, d) == IF c.v # WZero THEN VuiSar(Rd(c, d, 8), d) ELSE c
VuiAspect(c, d) == VuiAspectIf(Rd(c, d, 1), d)

VuiOverscanIf(c, d) == IF c.v # WZero THEN Rd(c, d, 1) ELSE c
VuiOverscan(c, d) == VuiOverscanIf(Rd(c, d, 1), d)

VuiColourIf(c, d) ==
    IF c.v # WZero THEN Rd(Rd(Rd(c, d, 8), d, 8), d, 8) ELSE c
VuiSignalIf(c, d) ==
    IF c.v # WZero THEN VuiColourIf(Rd(Rd(Rd(c, d, 3), d, 1), d, 1), d) ELSE c
VuiSignal(c, d) == VuiSignalIf(Rd(c, d, 1), d)

VuiChromaIf(c, d, shl32) ==
    IF c.v # WZero THEN RdUe(RdUe(c, d, shl32), d, shl32) ELSE c
VuiChroma(c, d, shl32) == VuiChromaIf(Rd(c, d, 1), d, shl32)

\* num_units_in_tick was read before time_scale; both are kept only when
\* neither is 0, and only then is fixed_frame_rate_flag read
VuiTimingSet(c, d, num_units_in_tick) ==
    IF c.v = WZero \/ num_units_in_tick = WZero THEN c
    ELSE SetInt(Rd(SetField(SetField(c, "num_units_in_tick", num_units_in_tick),
                            "time_scale", c.v),
                   d, 1),
                "fixed_frame_rate_flag")
VuiTimingScale(c, d) == VuiTimingSet(Rd(c, d, 32), d, c.v)
VuiTimingIf(c, d) ==
    IF c.sps.timing_info_present_flag # 0 THEN VuiTimingScale(Rd(c, d, 32), d)
    ELSE c
VuiTiming(c, d) == VuiTimingIf(SetInt(Rd(c, d, 1), "timing_info_present_flag"), d)

VuiNalHrdIf(c, d, shl32) ==
    IF c.sps.nal_hrd_parameters_present_flag # 0
    THEN gst_vui_decode_hrd_parameters(c, d, shl32) ELSE c
VuiNalHrd(c, d, shl32) ==
    VuiNalHrdIf(SetInt(Rd(c, d, 1), "nal_hrd_parameters_present_flag"), d, shl32)

VuiVclHrdIf(c, d, shl32) ==
    IF c.sps.vcl_hrd_parameters_present_flag # 0
    THEN gst_vui_decode_hrd_parameters(c, d, shl32) ELSE c
VuiVclHrd(c, d, shl32) ==
    VuiVclHrdIf(SetInt(Rd(c, d, 1), "vcl_hrd_parameters_present_flag"), d, shl32)

VuiLowDelay(c, d) ==
    IF c.sps.nal_hrd_parameters_present_flag # 0
          \/ c.sps.vcl_hrd_parameters_present_flag # 0
    THEN Rd(c, d, 1) ELSE c

\* gst_sps_decode_vui (h, bs), up to its first return
gst_sps_decode_vui(c, d, shl32) ==
    SetInt(Rd(VuiLowDelay(VuiVclHrd(VuiNalHrd(VuiTiming(
               VuiChroma(VuiSignal(VuiOverscan(VuiAspect(c, d), d), d), d, shl32),
               d), d, shl32), d, shl32), d), d, 1),
           "pic_struct_present_flag")

\* gst_nal_decode_sps, from its end backwards.  What follows the check of
\* log2_max_frame_num_minus4:
SpsCropIf(c, d, shl32) ==
    IF c.v # WZero
    THEN RdUe(RdUe(RdUe(RdUe(c, d, shl32), d, shl32), d, shl32), d, shl32)
    ELSE c

SpsVuiIf(c, d, shl32) ==
    IF c.sps.vui_parameters_present_flag # 0 THEN gst_sps_decode_vui(c, d, shl32)
    ELSE c

SpsFrameMbsIf(c, d) ==
    IF c.sps.frame_mbs_only_flag = 0 THEN Rd(c, d, 1) ELSE c

SpsPocIf(c, d, shl32) ==
    IF c.sps.pic_order_cnt_type = 0
    THEN SetU8(RdUe(c, d, shl32), "log2_max_pic_order_cnt_lsb_minus4")
    ELSE c

SpsDims(c, d, shl32) ==
    RdUe(RdUe(Rd(RdUe(c, d, shl32), d, 1), d, shl32), d, shl32)

SpsRest(c, d, shl32) ==
    SpsVuiIf(
      SetInt(Rd(
        SpsCropIf(Rd(Rd(
          SpsFrameMbsIf(
            SetInt(Rd(
              SpsDims(
                SpsPocIf(SetU8(RdUe(c, d, shl32), "pic_order_cnt_type"), d, shl32),
                d, shl32),
              d, 1), "frame_mbs_only_flag"),
            d),
          d, 1), d, 1), d, shl32),
        d, 1), "vui_parameters_present_flag"),
      d, shl32)

\* log2_max_frame_num_minus4 is stored in the entry, then checked
SpsLog2(c, d, shl32) ==
    IF SetU8(c, "log2_max_frame_num_minus4").sps.log2_max_frame_num_minus4 > 12
    THEN [c |-> SetU8(c, "log2_max_frame_num_minus4"), ret |-> FALSE]
    ELSE [c |-> SpsRest(SetU8(c, "log2_max_frame_num_minus4"), d, shl32),
          ret |-> TRUE]

\* the block read for the high profiles
SpsChromaIf(c, d) == IF c.v = WFromNat(3) THEN Rd(c, d, 1) ELSE c

SpsHigh(c, d, shl32, profile_idc) ==
    IF profile_idc \in {100, 110, 122, 244, 44, 83, 86}
    THEN Rd(Rd(RdUe(RdUe(SpsChromaIf(RdUe(c, d, shl32), d), d, shl32), d, shl32),
               d, 1), d, 1)
    ELSE c

SpsBody(c, d, shl32, profile_idc) ==
    SpsLog2(RdUe(SpsHigh(c, d, shl32, profile_idc), d, shl32), d, shl32)

SpsResult(g, sps_id, r) ==
    [ret |-> r.ret, tbl |-> [g.tbl EXCEPT ![sps_id] = r.c.sps], cur |-> g.cur,
     bs |-> r.c.bs]

\* profile_idc and level_idc are written into the entry as soon as it is got
SpsGot(g, c, d, shl32, profile_idc, level_idc, sps_id) ==
    IF ~g.ok THEN [ret |-> FALSE, tbl |-> g.tbl, cur |-> g.cur, bs |-> c.bs]
    ELSE SpsResult(g, sps_id,
            SpsBody([c EXCEPT !.ok = TRUE,
                              !.sps = [g.tbl[sps_id] EXCEPT
                                          !.profile_idc = profile_idc,
                                          !.level_idc = level_idc]],
                    d, shl32, profile_idc))

SpsWithId(tbl, cur, c, d, shl32, profile_idc, level_idc) ==
    SpsGot(gst_h264_parse_get_sps(tbl, cur, c.v.lo % 256), c, d, shl32,
           profile_idc, level_idc, c.v.lo % 256)

SpsWithLevel(tbl, cur, c, d, shl32, profile_idc) ==
    SpsWithId(tbl, cur, RdUe(c, d, shl32), d, shl32, profile_idc, c.v.lo % 256)

SpsWithProfile(tbl, cur, c, d, shl32) ==
    SpsWithLevel(tbl, cur,
                 Rd(Rd(Rd(Rd(Rd(Rd(c, d, 1), d, 1), d, 1), d, 1), d, 4), d, 8),
                 d, shl32, c.v.lo % 256)

\* gst_nal_decode_sps (h, bs) with bs at b over the bytes d: what it returns,
\* h->sps_buffers and h->sps afterwards, and the reader
gst_nal_decode_sps(tbl, cur, b, d, shl32) ==
    SpsWithProfile(tbl, cur, Rd(SpsCtx(b, SpsNew, FALSE), d, 8), d, shl32)

\* gst_nal_decode_pps (h, bs)
PpsGot(g, c, d, shl32, pps_id) ==
    IF ~g.ok THEN [ret |-> FALSE, tbl |-> g.tbl, cur |-> g.cur, bs |-> c.bs]
    ELSE [ret |-> TRUE,
          tbl |-> [g.tbl EXCEPT ![pps_id].sps_id =
                      RdUe(c, d, shl32).v.lo % 256],
          cur |-> g.cur, bs |-> RdUe(c, d, shl32).bs]

PpsWithId(tbl, cur, c, d, shl32) ==
    PpsGot(gst_h264_parse_get_pps(tbl, cur, c.v.lo % 256), c, d, shl32,
           c.v.lo % 256)

gst_nal_decode_pps(tbl, cur, b, d, shl32) ==
    PpsWithId(tbl, cur, RdUe(SpsCtx(b, SpsNew, FALSE), d, shl32), d, shl32)

\* gst_sei_decode_buffering_period (h, bs): c.bs is the reader, c.delay the
\* entries of h->initial_cpb_removal_delay written so far, by index.  One
\* turn of a loop over sched_sel_idx reads the delay and its offset.
SeiDelayRead(c, d, sched_sel_idx, r, n) ==
    [bs |-> gst_nal_bs_read(r.bs, d, n).bs,
     delay |-> (sched_sel_idx :> r.res) @@ c.delay]

RECURSIVE SeiSched(_, _, _, _)
SeiSched(c, d, sps, sched_sel_idx) ==
    IF sched_sel_idx > sps.cpb_cnt_minus1 THEN c
    ELSE SeiSched(
            SeiDelayRead(c, d, sched_sel_idx,
                gst_nal_bs_read(c.bs, d,
                    sps.initial_cpb_removal_delay_length_minus1 + 1),
                sps.initial_cpb_removal_delay_length_minus1 + 1),
            d, sps, sched_sel_idx + 1)

SeiVclHrd(c, d, sps) ==
    IF sps.vcl_hrd_parameters_present_flag # 0 THEN SeiSched(c, d, sps, 0) ELSE c

SeiNalHrd(c, d, sps) ==
    IF sps.nal_hrd_parameters_present_flag # 0 THEN SeiSched(c, d, sps, 0) ELSE c

\* after gst_h264_parse_get_sps: FALSE for NULL, else the delays are read and
\* 0 is returned
SeiGot(g, c, d) ==
    IF ~g.ok THEN [ret |-> FALSE, tbl |-> g.tbl, cur |-> g.cur, delay |-> <<>>]
    ELSE [ret |-> FALSE, tbl |-> g.tbl, cur |-> g.cur,
          delay |-> SeiVclHrd(SeiNalHrd([bs |-> c.bs, delay |-> <<>>], d,
                                        g.tbl[g.cur]),
                              d, g.tbl[g.cur]).delay]

gst_sei_decode_buffering_period(tbl, cur, b, d, shl32) ==
    SeiGot(gst_h264_parse_get_sps(tbl, cur,
               RdUe(SpsCtx(b, SpsNew, FALSE), d, shl32).v.lo % 256),
           RdUe(SpsCtx(b, SpsNew, FALSE), d, shl32), d)

\* gst_nal_decode_slice_header (h, bs), from its end backwards.  hdr holds
\* the fields of h it writes.  With h->sps NULL the reads of
\* h->sps->log2_max_pic_order_cnt_lsb_minus4 and h->sps->frame_mbs_only_flag
\* are undefined: null gives what the build makes of them, a fault that ends
\* the process or the two values read.
NullReads ==
    {[fault |-> TRUE, log2 |-> 0, frame_mbs_only_flag |-> 0]}
        \cup [fault : {FALSE}, log2 : {0, 12}, frame_mbs_only_flag : {0, 1}]

SliceBottom(hdr, r, d) ==
    IF r.res # WZero
    THEN [hdr EXCEPT !.field_pic_flag = r.res,
                     !.bottom_field_flag = gst_nal_bs_read(r.bs, d, 1).res]
    ELSE [hdr EXCEPT !.field_pic_flag = r.res]

\* "if (!h->sps && !h->sps->frame_mbs_only_flag)"
SliceFieldPic(hdr, r, d, sps_null, frame_mbs_only_flag) ==
    IF sps_null /\ frame_mbs_only_flag = 0
    THEN SliceBottom([hdr EXCEPT !.frame_num = r.res],
                     gst_nal_bs_read(r.bs, d, 1), d)
    ELSE [hdr EXCEPT !.frame_num = r.res]

SliceResult(ret, crashed, null_deref, gs, gp, hdr) ==
    [ret |-> ret, crashed |-> crashed, null_deref |-> null_deref,
     sps |-> gs.tbl, sps_cur |-> IF gs.ok THEN gs.cur ELSE -1,
     pps |-> gp.tbl, pps_cur |-> IF gp.ok THEN gp.cur ELSE -1, h |-> hdr]

\* after h->sps = gst_h264_parse_get_sps (h, sps_id)
SliceWithSps(gs, gp, c, d, hdr, null) ==
    IF gs.ok
    THEN SliceResult(TRUE, FALSE, FALSE, gs, gp,
            SliceFieldPic(hdr,
                gst_nal_bs_read(c.bs, d,
                    gs.tbl[gs.cur].log2_max_pic_order_cnt_lsb_minus4 + 4),
                d, FALSE, gs.tbl[gs.cur].frame_mbs_only_flag))
    ELSE IF null.fault
    THEN SliceResult(FALSE, TRUE, TRUE, gs, gp, hdr)
    ELSE SliceResult(TRUE, FALSE, TRUE, gs, gp,
            SliceFieldPic(hdr, gst_nal_bs_read(c.bs, d, null.log2 + 4),
                          d, TRUE, null.frame_mbs_only_flag))

\* after h->pps = gst_h264_parse_get_pps (h, pps_id)
SliceWithPps(gp, sps_tbl, sps_cur, c, d, hdr, null) ==
    IF ~gp.ok
    THEN SliceResult(FALSE, FALSE, FALSE,
                     [ok |-> TRUE, tbl |-> sps_tbl, cur |-> sps_cur], gp, hdr)
    ELSE SliceWithSps(
            gst_h264_parse_get_sps(sps_tbl, sps_cur, gp.tbl[gp.cur].sps_id),
            gp, c, d, hdr, null)

SliceWithPpsId(sps_tbl, sps_cur, pps_tbl, pps_cur, c, d, hdr, null) ==
    SliceWithPps(gst_h264_parse_get_pps(pps_tbl, pps_cur, c.v.lo % 256),
                 sps_tbl, sps_cur, c, d, hdr, null)

SliceWithType(sps_tbl, sps_cur, pps_tbl, pps_cur, c, d, shl32, hdr, null) ==
    SliceWithPpsId(sps_tbl, sps_cur, pps_tbl, pps_cur, RdUe(c, d, shl32), d,
                   [hdr EXCEPT !.slice_type = c.v], null)

SliceWithFirstMb(sps_tbl, sps_cur, pps_tbl, pps_cur, c, d, shl32, hdr, null) ==
    SliceWithType(sps_tbl, sps_cur, pps_tbl, pps_cur, RdUe(c, d, shl32), d,
                  shl32, [hdr EXCEPT !.first_mb_in_slice = c.v], null)

\* the fields of h a slice header is decoded into, as they are before
NoSliceHdr ==
    [first_mb_in_slice |-> WZero, slice_type |-> WZero, frame_num |-> WZero,
     field_pic_flag |-> WZero, bottom_field_flag |-> WZero]

gst_nal_decode_slice_header(sps_tbl, sps_cur, pps_tbl, pps_cur, b, d, shl32, null) ==
    SliceWithFirstMb(sps_tbl, sps_cur, pps_tbl, pps_cur,
                     RdUe(SpsCtx(b, SpsNew, FALSE), d, shl32), d, shl32,
                     NoSliceHdr, null)

\* what a call of gst_nal_decode_slice_header leaves in the store; a fault
\* ends the process (pc = "crashed")
SliceStore(r, data) ==
    /\ sps_buffers' = r.sps
    /\ h_sps' = r.sps_cur
    /\ pps_buffers' = r.pps
    /\ h_pps' = r.pps_cur
    /\ pc' = IF r.crashed THEN "crashed" ELSE pc
    /\ dec' = [op |-> "decode_slice_header", data |-> data, ret |-> r.ret,
               pre_sps |-> sps_buffers, pre_pps |-> pps_buffers,
               crashed |-> r.crashed, null_deref |-> r.null_deref, h |-> r.h]

\* a call of gst_nal_decode_slice_header with a reader set up over data
DecodeSliceHeader(data, null) ==
    /\ pc = "idle"
    /\ SliceStore(gst_nal_decode_slice_header(sps_buffers, h_sps, pps_buffers,
                      h_pps, gst_nal_bs_init(data), data, build_shl32, null),
                  data)

SeiStore(r, data) ==
    /\ sps_buffers' = r.tbl
    /\ h_sps' = r.cur
    /\ dec' = [op |-> "decode_buffering_period", data |-> data, ret |-> r.ret,
               pre_sps |-> sps_buffers, pre_pps |-> pps_buffers,
               crashed |-> FALSE, null_deref |-> FALSE, delay |-> r.delay]
    /\ UNCHANGED <<pps_buffers, h_pps>>

\* a call of gst_sei_decode_buffering_period with a reader set up over data
DecodeBufferingPeriod(data) ==
    /\ pc = "idle"
    /\ SeiStore(gst_sei_decode_buffering_period(sps_buffers, h_sps,
                    gst_nal_bs_init(data), data, build_shl32), data)

\* a call of gst_nal_decode_sps with a reader set up over data
DecodeSps(data) ==
    /\ pc = "idle"
    /\ LET r == gst_nal_decode_sps(sps_buffers, h_sps, gst_nal_bs_init(data),
                                   data, build_shl32)
       IN  /\ sps_buffers' = r.tbl
           /\ h_sps' = r.cur
           /\ dec' = [op |-> "decode_sps", data |-> data, ret |-> r.ret,
                      pre_sps |-> sps_buffers, pre_pps |-> pps_buffers]
    /\ UNCHANGED <<pps_buffers, h_pps>>

\* a call of gst_nal_decode_pps with a reader set up over data
DecodePps(data) ==
    /\ pc = "idle"
    /\ LET r == gst_nal_decode_pps(pps_buffers, h_pps, gst_nal_bs_init(data),
                                   data, build_shl32)
       IN  /\ pps_buffers' = r.tbl
           /\ h_pps' = r.cur
           /\ dec' = [op |-> "decode_pps", data |-> data, ret |-> r.ret,
                      pre_sps |-> sps_buffers, pre_pps |-> pps_buffers]
    /\ UNCHANGED <<sps_buffers, h_sps>>

(***************************************************************************)
(* Events and state changes                                                *)
(***************************************************************************)
\* gst_h264_parse_clear_queues (h264parse): the gather list, the decode
\* queue, the leftover and the adapter are emptied; nothing else is written
gst_h264_parse_clear_queues ==
    /\ gather' = <<>>
    /\ decode' = <<>>
    /\ decode_len' = 0
    /\ prev' = <<>>
    /\ adapter' = <<>>
    /\ adapter_ts' = <<>>
    /\ have_i_frame' = FALSE
    /\ UNCHANGED <<discont, storeVars, rv, qb>>

\* what a handler that clears the queues found when it was called
ClearPre ==
    [gather |-> gather, decode |-> decode, prev |-> prev, adapter |-> adapter,
     have_i_frame |-> have_i_frame, decode_len |-> decode_len,
     sps_buffers |-> sps_buffers, pps_buffers |-> pps_buffers,
     cleared |-> last.op \in {"flush_stop", "paused_to_ready"}]

\* gst_h264_parse_sink_event, GST_EVENT_FLUSH_STOP: gst_segment_init sets the
\* rate to 1.0, the queues are cleared, the event is pushed on
FlushStop ==
    /\ pc = "idle"
    /\ rate' = 1
    /\ gst_h264_parse_clear_queues
    /\ out' = <<>>
    /\ last' = [op |-> "flush_stop", discont |-> FALSE, chunk |-> <<>>,
                pre |-> ClearPre]
    /\ UNCHANGED pc

\* as AvccError, but a record of six bytes passes
Mut_AvccError(data) ==
    IF Len(data) < 6 THEN "avcc_too_small"
    ELSE IF data[1] # 1 THEN "wrong_version"
    ELSE "none"

\* the two checks of the avcC data in gst_h264_parse_sink_setcaps, by the
\* label they jump to
AvccError(data) ==
    IF Len(data) < 7 THEN "avcc_too_small"
    ELSE IF data[1] # 1 THEN "wrong_version"
    ELSE "none"

\* gst_h264_parse_sink_setcaps (pad, caps): has tells whether the caps hold
\* a codec_data, data is its bytes.  packetized is written before the data
\* is looked at; the caps reach the source pad only when no check failed
\* (the source pad has no setcaps function, gst_pad_set_caps succeeds).
gst_h264_parse_sink_setcaps(has, data) ==
    /\ pc = "idle"
    /\ IF has
       THEN /\ packetized' = TRUE
            /\ IF AvccError(data) = "none"
               THEN /\ nal_length_size' = (data[5] % 4) + 1
                    /\ src_caps' = TRUE
               ELSE UNCHANGED <<nal_length_size, src_caps>>
       ELSE /\ packetized' = FALSE
            /\ nal_length_size' = 4
            /\ src_caps' = TRUE
    /\ UNCHANGED split_packetized
    /\ out' = <<>>
    /\ last' = [op |-> "setcaps", discont |-> FALSE, chunk |-> data,
                pre |-> [packetized |-> packetized,
                         nal_length_size |-> nal_length_size,
                         src_caps |-> src_caps],
                has |-> has,
                error |-> IF has THEN AvccError(data) ELSE "none",
                ret |-> ~has \/ AvccError(data) = "none"]

\* gst_h264_parse_sink_event, GST_EVENT_NEWSEGMENT: the segment takes the
\* event's rate, the event is pushed on
NewSegment(r) ==
    /\ pc = "idle"
    /\ rate' = r
    /\ out' = <<>>
    /\ last' = [op |-> "newsegment", discont |-> FALSE, chunk |-> <<>>,
                pre |-> <<>>]
    /\ UNCHANGED <<fwdVars, revVars, storeVars>>

\* gst_h264_parse_sink_event, GST_EVENT_EOS with segment.rate >= 0: the event
\* is pushed on and nothing else happens
FwdEos ==
    /\ pc = "idle"
    /\ rate >= 0
    /\ out' = <<>>
    /\ last' = [op |-> "eos", discont |-> FALSE, chunk |-> <<>>, pre |-> <<>>]
    /\ UNCHANGED <<rate, fwdVars, revVars, storeVars>>

\* gst_h264_parse_change_state, GST_STATE_CHANGE_PAUSED_TO_READY: the parent
\* class deactivates the pads, then the queues are cleared.  pc = "ready"
\* stands for the element in READY, where no pad handler can run.
PausedToReady ==
    /\ pc = "idle"
    /\ gst_h264_parse_clear_queues
    /\ pc' = "ready"
    /\ out' = <<>>
    /\ last' = [op |-> "paused_to_ready", discont |-> FALSE, chunk |-> <<>>,
                pre |-> ClearPre]
    /\ UNCHANGED rate

\* GST_STATE_CHANGE_READY_TO_PAUSED: gst_segment_init
ReadyToPaused ==
    /\ pc = "ready"
    /\ rate' = 1
    /\ pc' = "idle"
    /\ out' = <<>>
    /\ last' = [op |-> "ready_to_paused", discont |-> FALSE, chunk |-> <<>>,
                pre |-> <<>>]
    /\ UNCHANGED <<fwdVars, gather, prev, decode, decode_len, have_i_frame, rv,
                   qb, storeVars>>

(***************************************************************************)
(* SpecBs: a bit reader over a byte range, read by a sequence of calls     *)
(***************************************************************************)
MaxBsLen == 5
BsByteVals == {0, 3, 128}
BsReadSizes == {0, 1, 3, 32}

RECURSIVE SeqsUpTo(_, _)
SeqsUpTo(S, n) ==
    IF n = 0 THEN {<<>>}
    ELSE LET shorter == SeqsUpTo(S, n - 1)
         IN  shorter \cup {Append(s, x) : s \in {t \in shorter : Len(t) = n - 1}, x \in S}

BsIdle ==
    /\ bs_data = <<>>
    /\ bs = gst_nal_bs_init(<<>>)
    /\ bs_bits = <<>>
    /\ bs_last = [n |-> 0, got |-> 0, res |-> WZero, only1 |-> TRUE]

UeIdle ==
    /\ ue_v = -1
    /\ ue_data = <<>>
    /\ ue_res = [done |-> FALSE, i |-> 0, res |-> WZero]

BsInit ==
    /\ bs_data \in SeqsUpTo(BsByteVals, MaxBsLen)
    /\ bs = gst_nal_bs_init(bs_data)
    /\ bs_bits = <<>>
    /\ bs_last = [n |-> 0, got |-> 0, res |-> WZero, only1 |-> TRUE]
    /\ UeIdle
    /\ ElemIdle
    /\ build_shl32 = 1

\* one call gst_nal_bs_read (&bs, n) before the reader has reported eos
BsRead(n) ==
    /\ ~gst_nal_bs_eos(bs, bs_data)
    /\ LET r == gst_nal_bs_read(bs, bs_data, n)
       IN  /\ bs' = r.bs
           /\ bs_bits' = bs_bits \o r.bits
           /\ bs_last' = [n |-> n, got |-> r.n, res |-> r.res,
                          only1 |-> bs_last.only1 /\ n = 1]
    /\ UNCHANGED <<bs_data, ueVars, build_shl32, elemVars>>

\* one call gst_nal_bs_read (&bs, n) after the reader has reported eos
BsReadAtEos(n) ==
    /\ gst_nal_bs_eos(bs, bs_data)
    /\ LET r == gst_nal_bs_read(bs, bs_data, n)
       IN  /\ bs' = r.bs
           /\ bs_bits' = bs_bits \o r.bits
           /\ bs_last' = [n |-> n, got |-> r.n, res |-> r.res,
                          only1 |-> bs_last.only1 /\ n = 1]
    /\ UNCHANGED <<bs_data, ueVars, build_shl32, elemVars>>

BsNext ==
    \/ \E n \in BsReadSizes : BsRead(n)
    \/ \E n \in BsReadSizes : BsReadAtEos(n)

SpecBs == BsInit /\ [][BsNext]_vars

(***************************************************************************)
(* SpecUe: encode an integer, decode it with gst_nal_bs_read_ue            *)
(***************************************************************************)
MaxUeVal == 65535

UeInit ==
    /\ ue_v \in 0..MaxUeVal
    /\ ue_data = UeEncode(ue_v)
    /\ ue_res = [done |-> FALSE, i |-> 0, res |-> WZero]
    /\ BsIdle
    /\ ElemIdle
    /\ build_shl32 \in ShlOutcomes

UeDecode ==
    /\ ~ue_res.done
    /\ LET r == gst_nal_bs_read_ue(gst_nal_bs_init(ue_data), ue_data, build_shl32)
       IN  ue_res' = [done |-> TRUE, i |-> r.i, res |-> r.res]
    /\ UNCHANGED <<ue_v, ue_data, bsVars, build_shl32, elemVars>>

UeNext == UeDecode

SpecUe == UeInit /\ [][UeNext]_vars

(***************************************************************************)
(* SpecFwd: the forward path fed a stream of NAL units in arbitrary chunks *)
(***************************************************************************)
MaxFwdNals == 3

\* a slice payload: first_mb_in_slice = 0, then slice_type t, zero-padded
SlicePayload(t) == BitsToBytes(<<1>> \o UeEncodeBits(t))

\* NAL units by their first byte: 0x67 SPS, 0x68 PPS, 0x06 SEI, 0x65 IDR
\* slice, 0x41 non-IDR slice; <<101>> is a slice cut off after its header byte
SpsNal == <<103, 66>>
PpsNal == <<104, 192>>
SeiNal == <<6, 5>>
IdrNal == <<101>> \o SlicePayload(7)
PNal == <<65>> \o SlicePayload(0)

FwdFirstNals ==
    {SpsNal, PpsNal, SeiNal, IdrNal, <<101>>}
        \cup {<<65>> \o SlicePayload(t) : t \in 0..10}

FwdMoreNals == {IdrNal, PNal, SpsNal}

\* streams of up to MaxFwdNals units; the rarer kinds of unit come only
\* first in a stream of one or two
FwdNalSeqs ==
    {s \in SeqsUpTo(FwdFirstNals \cup FwdMoreNals, MaxFwdNals) :
        /\ s # <<>>
        /\ \A i \in 2..Len(s) : s[i] \in FwdMoreNals
        /\ Len(s) >= 3 => s[1] \in FwdMoreNals}

FwdConfigs ==
    {[packetized |-> FALSE, nal_length_size |-> 4, split_packetized |-> FALSE],
     [packetized |-> TRUE, nal_length_size |-> 2, split_packetized |-> FALSE],
     [packetized |-> TRUE, nal_length_size |-> 2, split_packetized |-> TRUE]}

\* the length field of a NAL unit, nls bytes, big-endian
LengthPrefix(nls, n) ==
    [j \in 1..nls |-> (n \div (256 ^ (nls - j))) % 256]

\* one NAL unit framed for the stream: after a start code, or length-prefixed
Framed(pkt, nls, nal) ==
    IF pkt THEN LengthPrefix(nls, Len(nal)) \o nal ELSE StartCode \o nal

RECURSIVE FramedSeq(_, _, _)
FramedSeq(pkt, nls, nals) ==
    IF nals = <<>> THEN <<>>
    ELSE Framed(pkt, nls, nals[1]) \o FramedSeq(pkt, nls, Tail(nals))

FwdInit ==
    /\ \E c \in FwdConfigs, nals \in FwdNalSeqs :
          /\ packetized = c.packetized
          /\ nal_length_size = c.nal_length_size
          /\ split_packetized = c.split_packetized
          /\ stream = FramedSeq(c.packetized, c.nal_length_size, nals)
    /\ stream_pos = 0
    /\ trace = <<>>
    /\ src_caps = TRUE
    /\ rate = 1
    /\ adapter = <<>>
    /\ adapter_ts = <<>>
    /\ discont = FALSE
    /\ RevIdle
    /\ StoreIdle
    /\ out = <<>>
    /\ last = NoCall
    /\ ncalls = 0
    /\ build_shl32 = 1
    /\ BsIdle
    /\ UeIdle

\* gst_h264_parse_chain with segment.rate > 0: the next k bytes of the stream
\* arrive as one buffer, flagged discont or not
FwdChain(k, disc) ==
    /\ pc = "idle"
    /\ rate > 0
    /\ stream_pos + k <= Len(stream)
    /\ ChainDefaultCaps
    /\ gst_h264_parse_chain_forward(disc,
            SubSeq(stream, stream_pos + 1, stream_pos + k), 0)
    /\ stream_pos' = stream_pos + k
    /\ UNCHANGED <<stream, trace, rate, revVars, storeVars, ncalls,
                   build_shl32, bsVars, ueVars>>

FwdNext ==
    \E k \in 1..(Len(stream) - stream_pos), disc \in BOOLEAN : FwdChain(k, disc)

SpecFwd == FwdInit /\ [][FwdNext]_vars

(***************************************************************************)
(* SpecTrace: the forward path over a few buffers, each with a timestamp   *)
(* of its own, every call and the units it pushed kept in trace            *)
(***************************************************************************)
MaxTraceCalls == 4

\* three units behind start codes; three length-prefixed units, whole or split
TraceStreams ==
    {[packetized |-> FALSE, nal_length_size |-> 4, split_packetized |-> FALSE,
      stream |-> FramedSeq(FALSE, 4, <<SpsNal, IdrNal, PNal>>)],
     [packetized |-> TRUE, nal_length_size |-> 2, split_packetized |-> FALSE,
      stream |-> FramedSeq(TRUE, 2, <<SpsNal, IdrNal, PNal>>)],
     [packetized |-> TRUE, nal_length_size |-> 2, split_packetized |-> TRUE,
      stream |-> FramedSeq(TRUE, 2, <<SpsNal, IdrNal, PNal>>)]}

TraceInit ==
    /\ \E c \in TraceStreams :
          /\ packetized = c.packetized
          /\ nal_length_size = c.nal_length_size
          /\ split_packetized = c.split_packetized
          /\ stream = c.stream
    /\ stream_pos = 0
    /\ trace = <<>>
    /\ src_caps = TRUE
    /\ rate = 1
    /\ adapter = <<>>
    /\ adapter_ts = <<>>
    /\ discont = FALSE
    /\ RevIdle
    /\ StoreIdle
    /\ out = <<>>
    /\ last = NoCall
    /\ ncalls = 0
    /\ build_shl32 = 1
    /\ BsIdle
    /\ UeIdle

\* gst_h264_parse_chain with segment.rate > 0: the next k bytes of the stream
\* arrive as the buffer number Len(trace) + 1, which is its timestamp
TraceChain(k, disc) ==
    /\ pc = "idle"
    /\ rate > 0
    /\ Len(trace) < MaxTraceCalls
    /\ stream_pos + k <= Len(stream)
    /\ ChainDefaultCaps
    /\ gst_h264_parse_chain_forward(disc,
            SubSeq(stream, stream_pos + 1, stream_pos + k), Len(trace) + 1)
    /\ stream_pos' = stream_pos + k
    /\ trace' = Append(trace,
                    [discont |-> disc, timestamp |-> Len(trace) + 1,
                     chunk |-> SubSeq(stream, stream_pos + 1, stream_pos + k),
                     op |-> "chain", units |-> out', stamps |-> last'.stamps,
                     held |-> adapter'])
    /\ UNCHANGED <<stream, rate, revVars, storeVars, ncalls, build_shl32,
                   bsVars, ueVars>>

TraceNext ==
    \E k \in 1..(Len(stream) - stream_pos), disc \in BOOLEAN : TraceChain(k, disc)

SpecTrace == TraceInit /\ [][TraceNext]_vars

(***************************************************************************)
(* SpecCaps: caps with and without codec_data set on the sink pad, and     *)
(* buffers chained on the forward path between them                        *)
(***************************************************************************)
MaxCapsCalls == 3

\* avcC records: empty, one byte short, version 1 with each length size,
\* one byte longer, version 0 and version 2
CapsRecords ==
    {<<>>, <<1, 66, 0, 30, 255, 225>>, <<0, 66, 0, 30, 255, 225, 0>>,
     <<2, 66, 0, 30, 253, 225, 0>>, <<1, 66, 0, 30, 3, 225, 0, 0>>}
        \cup {<<1, 66, 0, 30, b, 225, 0>> : b \in {252, 253, 254, 255}}

\* buffers: two units behind start codes, one unit behind a length field of
\* one byte, one behind a length field of four
CapsChunks ==
    {StartCode \o SpsNal \o StartCode \o IdrNal, Framed(TRUE, 1, SpsNal),
     Framed(TRUE, 4, SpsNal)}

CapsInit ==
    /\ ElemIdle
    /\ build_shl32 = 1
    /\ BsIdle
    /\ UeIdle

capsRest ==
    <<rate, revVars, storeVars, ncalls, stream, stream_pos, build_shl32,
      bsVars, ueVars>>

\* the pad's caps are set: gst_h264_parse_sink_setcaps runs
CapsSet(has, data) ==
    /\ Len(trace) < MaxCapsCalls
    /\ gst_h264_parse_sink_setcaps(has, data)
    /\ trace' = Append(trace,
                    [op |-> "setcaps", has |-> has, data |-> data,
                     ret |-> last'.ret,
                     pre |-> [packetized |-> packetized,
                              nal_length_size |-> nal_length_size],
                     post |-> [packetized |-> packetized',
                               nal_length_size |-> nal_length_size']])
    /\ UNCHANGED <<fwdVars, capsRest>>

\* gst_h264_parse_chain with segment.rate > 0
CapsChain(chunk, disc) ==
    /\ pc = "idle"
    /\ rate > 0
    /\ Len(trace) < MaxCapsCalls
    /\ ChainDefaultCaps
    /\ gst_h264_parse_chain_forward(disc, chunk, 0)
    /\ trace' = Append(trace,
                    [op |-> "chain", discont |-> disc, chunk |-> chunk,
                     units |-> out', pre_held |-> adapter, held |-> adapter'])
    /\ UNCHANGED capsRest

CapsNext ==
    \/ \E data \in CapsRecords : CapsSet(TRUE, data)
    \/ CapsSet(FALSE, <<>>)
    \/ \E chunk \in CapsChunks, disc \in BOOLEAN : CapsChain(chunk, disc)

SpecCaps == CapsInit /\ [][CapsNext]_vars

(***************************************************************************)
(* SpecRev: reverse playback (segment.rate < 0): buffers gathered, moved   *)
(* to the decode queue on discont, the queue flushed on a slice after an I *)
(* frame and at end of stream                                              *)
(***************************************************************************)
MaxRevCalls == 5

P5Nal == <<65>> \o SlicePayload(5)

RevConfigs ==
    { [packetized |-> FALSE, nal_length_size |-> 4],
      [packetized |-> TRUE, nal_length_size |-> 2] }

\* packetized: one NAL per buffer behind its length field; bytestream: one
\* NAL behind its start code, or a buffer boundary inside a start code
RevChunks(pkt, nls) ==
    IF pkt
    THEN {Framed(TRUE, nls, nal) : nal \in {PNal, P5Nal, IdrNal, SpsNal}}
    ELSE {StartCode \o nal : nal \in {PNal, IdrNal, SpsNal}}
            \cup {StartCode \o P5Nal \o <<0, 0>>, <<0, 1>> \o PNal}

RevInit ==
    /\ \E c \in RevConfigs :
          /\ packetized = c.packetized
          /\ nal_length_size = c.nal_length_size
    /\ split_packetized = FALSE
    /\ src_caps = TRUE
    /\ rate = -1
    /\ adapter = <<>>
    /\ adapter_ts = <<>>
    /\ discont = FALSE
    /\ RevIdle
    /\ StoreIdle
    /\ out = <<>>
    /\ last = NoCall
    /\ ncalls = 0
    /\ stream = <<>>
    /\ stream_pos = 0
    /\ trace = <<>>
    /\ build_shl32 = 1
    /\ BsIdle
    /\ UeIdle

revRest ==
    <<rate, fwdVars, storeVars, inVars, build_shl32, bsVars, ueVars>>

\* gst_h264_parse_chain with segment.rate < 0
RevChain(chunk, disc) ==
    /\ rate < 0
    /\ ncalls < MaxRevCalls
    /\ ChainDefaultCaps
    /\ RevEnter(disc, chunk, FALSE)
    /\ UNCHANGED revRest

\* GST_EVENT_EOS with segment.rate < 0
RevEos ==
    /\ rate < 0
    /\ ncalls < MaxRevCalls
    /\ RevEnter(TRUE, <<>>, TRUE)
    /\ UNCHANGED <<cfgVars, revRest>>

RevNext ==
    \/ \E chunk \in RevChunks(packetized, nal_length_size), disc \in BOOLEAN :
          RevChain(chunk, disc)
    \/ RevEos
    \/ RevDrain /\ UNCHANGED <<cfgVars, revRest>>
    \/ RevScan /\ UNCHANGED <<cfgVars, revRest>>
    \/ RevEosFlush /\ UNCHANGED <<cfgVars, revRest>>

SpecRev == RevInit /\ [][RevNext]_vars

(***************************************************************************)
(* SpecQueue: one packetized buffer with any length fields, gathered on    *)
(* the reverse path and moved to the decode queue at end of stream         *)
(***************************************************************************)
MaxQueueLen == 4

QueueBytes == {0, 1, 2, 3, 65, 255}

\* every buffer of up to MaxQueueLen bytes for length fields of one and two
\* bytes; for four, a P slice behind every length field of bytes 0, 2, 255
QueueBuffers(nls) ==
    IF nls = 4 THEN {prefix \o PNal : prefix \in [1..4 -> {0, 2, 255}]}
    ELSE SeqsUpTo(QueueBytes, MaxQueueLen) \ {<<>>}

QueueInit ==
    /\ \E nls \in {1, 2, 4} :
          /\ nal_length_size = nls
          /\ stream \in QueueBuffers(nls)
    /\ packetized = TRUE
    /\ split_packetized = FALSE
    /\ src_caps = TRUE
    /\ rate = -1
    /\ adapter = <<>>
    /\ adapter_ts = <<>>
    /\ discont = FALSE
    /\ RevIdle
    /\ StoreIdle
    /\ out = <<>>
    /\ last = NoCall
    /\ ncalls = 0
    /\ stream_pos = 0
    /\ trace = <<>>
    /\ build_shl32 = 1
    /\ BsIdle
    /\ UeIdle

queueRest == <<rate, fwdVars, storeVars, stream, trace, build_shl32, bsVars, ueVars>>

\* gst_h264_parse_chain with segment.rate < 0: the stream arrives as one buffer
QueueChain(disc) ==
    /\ rate < 0
    /\ stream_pos = 0
    /\ ChainDefaultCaps
    /\ RevEnter(disc, stream, FALSE)
    /\ stream_pos' = Len(stream)
    /\ UNCHANGED queueRest

\* GST_EVENT_EOS with segment.rate < 0, once
QueueEos ==
    /\ rate < 0
    /\ stream_pos = Len(stream)
    /\ last.op # "eos"
    /\ RevEnter(TRUE, <<>>, TRUE)
    /\ UNCHANGED <<cfgVars, stream_pos, queueRest>>

QueueNext ==
    \/ \E disc \in BOOLEAN : QueueChain(disc)
    \/ QueueEos
    \/ RevDrain /\ UNCHANGED <<cfgVars, stream_pos, queueRest>>
    \/ RevEosFlush /\ UNCHANGED <<cfgVars, stream_pos, queueRest>>

SpecQueue == QueueInit /\ [][QueueNext]_vars

(***************************************************************************)
(* SpecCut: one group of a byte stream in reverse playback, cut into       *)
(* buffers at any places, moved to the decode queue by the next discont    *)
(***************************************************************************)
MaxCutLen == 5

CutByteVals == {0, 1, 101}

\* every group of up to MaxCutLen bytes, and longer ones with two start
\* codes, a run of zeros before one, a leftover before the first
CutGroups ==
    (SeqsUpTo(CutByteVals, MaxCutLen) \ {<<>>})
        \cup {StartCode \o IdrNal \o StartCode \o PNal,
              <<65, 0>> \o StartCode \o <<103, 0, 0>> \o StartCode \o <<101>>}

\* the first buffer of the group that follows
CutNextChunk == StartCode \o PNal

CutInit ==
    /\ stream \in CutGroups
    /\ packetized = FALSE
    /\ nal_length_size = 4
    /\ split_packetized = FALSE
    /\ src_caps = TRUE
    /\ rate = -1
    /\ adapter = <<>>
    /\ adapter_ts = <<>>
    /\ discont = FALSE
    /\ RevIdle
    /\ StoreIdle
    /\ out = <<>>
    /\ last = NoCall
    /\ ncalls = 0
    /\ stream_pos = 0
    /\ trace = <<>>
    /\ build_shl32 = 1
    /\ BsIdle
    /\ UeIdle

cutRest == <<rate, fwdVars, storeVars, stream, build_shl32, bsVars, ueVars>>

\* gst_h264_parse_chain with segment.rate < 0 on the next n bytes of the
\* group; the group's first buffer may carry DISCONT
CutChain(n, disc) ==
    /\ rate < 0
    /\ stream_pos + n <= Len(stream)
    /\ disc => stream_pos = 0
    /\ ChainDefaultCaps
    /\ RevEnter(disc, SubSeq(stream, stream_pos + 1, stream_pos + n), FALSE)
    /\ stream_pos' = stream_pos + n
    /\ trace' = Append(trace, [op |-> "chain",
                    buffer |-> SubSeq(stream, stream_pos + 1, stream_pos + n)])
    /\ UNCHANGED cutRest

\* gst_h264_parse_chain on the first buffer of the next group, with DISCONT
CutDiscont ==
    /\ rate < 0
    /\ stream_pos = Len(stream)
    /\ ChainDefaultCaps
    /\ RevEnter(TRUE, CutNextChunk, FALSE)
    /\ stream_pos' = Len(stream) + 1
    /\ UNCHANGED <<trace, cutRest>>

\* RevScan, with the buffer it hands to gst_h264_parse_queue_buffer recorded
CutScan ==
    /\ RevScan
    /\ trace' = trace \o
         (IF gst_h264_parse_find_start_reverse(rv.gbuf, rv.last, rv.code).start # -1
          THEN <<[op |-> "queue_buffer",
                  buffer |-> SubSeq(rv.gbuf, rv'.last + 1, rv.last)]>>
          ELSE <<>>)
    /\ UNCHANGED <<cfgVars, stream_pos, cutRest>>

CutNext ==
    \/ \E n \in 1..Len(stream), disc \in BOOLEAN : CutChain(n, disc)
    \/ CutDiscont
    \/ RevDrain /\ UNCHANGED <<cfgVars, stream_pos, trace, cutRest>>
    \/ CutScan

SpecCut == CutInit /\ [][CutNext]_vars

(***************************************************************************)
(* SpecLen: forward playback of a packetized stream whose length fields    *)
(* hold any value, split at the NAL units or not                           *)
(***************************************************************************)
MaxLenCalls == 2

\* length fields: 0 to 3, one past every buffer, and for four bytes the
\* values whose sum with nal_length_size passes 2^32
LenFields(nls) ==
    {LengthPrefix(nls, n) : n \in 0..3}
        \cup {[j \in 1..nls |-> 255]}
        \cup (IF nls = 4 THEN {<<255, 255, 255, 252>>, <<0, 1, 0, 0>>} ELSE {})

\* what follows a length field in a buffer: nothing, NAL units of one to
\* three bytes, an IDR slice with a second length-prefixed unit behind it
LenPayloads(nls) ==
    {<<>>, <<101>>, IdrNal, PNal \o <<0>>, IdrNal \o Framed(TRUE, nls, PNal)}

\* the buffers: a length field and a payload, and buffers that end inside
\* the length field
LenChunks(nls) ==
    {f \o pl : f \in LenFields(nls), pl \in LenPayloads(nls)}
        \cup {SubSeq(LengthPrefix(nls, 2), 1, k) : k \in 1..nls}

LenInit ==
    /\ nal_length_size \in {1, 2, 4}
    /\ packetized = TRUE
    /\ split_packetized \in BOOLEAN
    /\ src_caps = TRUE
    /\ rate = 1
    /\ adapter = <<>>
    /\ adapter_ts = <<>>
    /\ discont = FALSE
    /\ RevIdle
    /\ StoreIdle
    /\ out = <<>>
    /\ last = NoCall
    /\ ncalls = 0
    /\ stream = <<>>
    /\ stream_pos = 0
    /\ trace = <<>>
    /\ build_shl32 = 1
    /\ BsIdle
    /\ UeIdle

\* gst_h264_parse_chain with segment.rate > 0 on one buffer
LenChain(chunk, disc) ==
    /\ pc = "idle"
    /\ rate > 0
    /\ ncalls < MaxLenCalls
    /\ ncalls' = ncalls + 1
    /\ ChainDefaultCaps
    /\ gst_h264_parse_chain_forward(disc, chunk, 0)
    /\ UNCHANGED <<rate, revVars, storeVars, inVars, build_shl32, bsVars, ueVars>>

LenNext ==
    \E chunk \in LenChunks(nal_length_size), disc \in BOOLEAN :
        LenChain(chunk, disc)

SpecLen == LenInit /\ [][LenNext]_vars

(***************************************************************************)
(* SpecSps: parameter sets decoded into the store                          *)
(***************************************************************************)
MaxSpsCalls == 2

RECURSIVE Zeros(_)
Zeros(n) == IF n = 0 THEN <<>> ELSE <<0>> \o Zeros(n - 1)

\* the VUI of an encoded SPS: absent, with timing_info (1 unit in a tick of
\* a 50 Hz clock, fixed frame rate), with NAL HRD parameters, or with NAL HRD
\* parameters that give cpb_cnt_minus1 as 32 ("hrd32")
VuiBits(vui) ==
    IF vui = "none" THEN <<0>>
    ELSE IF vui = "timing"
    THEN <<1, 0, 0, 0, 0, 1>> \o Zeros(16) \o NatToBits(1, 16)
            \o Zeros(16) \o NatToBits(50, 16) \o <<1, 0, 0, 1>>
    ELSE <<1, 0, 0, 0, 0, 0, 1>>
            \o UeEncodeBits(IF vui = "hrd32" THEN 32 ELSE 0) \o Zeros(8)
            \o UeEncodeBits(0) \o UeEncodeBits(0) \o <<1>>
            \o NatToBits(23, 5) \o NatToBits(22, 5) \o NatToBits(21, 5)
            \o NatToBits(24, 5) \o <<0, 0, 1>>

\* the payload of an SPS NAL unit (level 30, one reference frame, 11 x 9
\* macroblocks, frames only, no cropping), zero-padded to a byte boundary
SpsEncode(f) ==
    BitsToBytes(
        NatToBits(f.profile_idc, 8) \o Zeros(8) \o NatToBits(30, 8)
        \o UeEncodeBits(f.sps_id)
        \o (IF f.profile_idc = 100
            THEN UeEncodeBits(1) \o UeEncodeBits(0) \o UeEncodeBits(0) \o <<0, 0>>
            ELSE <<>>)
        \o UeEncodeBits(f.log2_max_frame_num_minus4)
        \o UeEncodeBits(f.pic_order_cnt_type)
        \o (IF f.pic_order_cnt_type = 0 THEN UeEncodeBits(2) ELSE <<>>)
        \o UeEncodeBits(1) \o <<0>> \o UeEncodeBits(10) \o UeEncodeBits(8)
        \o <<1, 1, 0>> \o VuiBits(f.vui))

SpsFields ==
    [profile_idc : {66, 100}, sps_id : {0, 1, 32, 257},
     log2_max_frame_num_minus4 : {0, 12, 13}, pic_order_cnt_type : {0, 2},
     vui : {"none", "timing", "hrd", "hrd32"}]

PpsEncode(f) ==
    BitsToBytes(UeEncodeBits(f.pps_id) \o UeEncodeBits(f.sps_id) \o <<1>>)

PpsFields == [pps_id : {0, 1, 255, 256}, sps_id : {0, 1, 32}]

\* the start of a slice header: first_mb_in_slice 0, slice_type 7, the
\* pps_id, then the bits 1010 1010 for frame_num and what follows
SliceEncode(pps_id) ==
    BitsToBytes(UeEncodeBits(0) \o UeEncodeBits(7) \o UeEncodeBits(pps_id)
                    \o <<1, 0, 1, 0, 1, 0, 1, 0>>)

\* a buffering period SEI payload: the sps_id, then delay bits
SeiEncode(sps_id) ==
    BitsToBytes(UeEncodeBits(sps_id) \o <<1, 0, 1, 1, 0, 0, 1, 0>> \o Zeros(40))

RefIds == {0, 1, 32}

SpsInputs == {SpsEncode(f) : f \in SpsFields}
PpsInputs == {PpsEncode(f) : f \in PpsFields}
SliceInputs == {SliceEncode(id) : id \in RefIds}
SeiInputs == {SeiEncode(id) : id \in RefIds}

SpsInit ==
    /\ ElemIdle
    /\ build_shl32 = 1
    /\ BsIdle
    /\ UeIdle

spsRest ==
    <<cfgVars, rate, fwdVars, revVars, out, last, inVars, build_shl32, bsVars,
      ueVars>>

SpsDecode(data) ==
    /\ ncalls < MaxSpsCalls
    /\ DecodeSps(data)
    /\ ncalls' = ncalls + 1
    /\ UNCHANGED spsRest

PpsDecode(data) ==
    /\ ncalls < MaxSpsCalls
    /\ DecodePps(data)
    /\ ncalls' = ncalls + 1
    /\ UNCHANGED spsRest

SliceDecode(data, null) ==
    /\ ncalls < MaxSpsCalls
    /\ DecodeSliceHeader(data, null)
    /\ ncalls' = ncalls + 1
    /\ UNCHANGED <<cfgVars, rate, fwdVars, gather, prev, decode, decode_len,
                   have_i_frame, rv, qb, out, last, inVars, build_shl32,
                   bsVars, ueVars>>

SeiDecode(data) ==
    /\ ncalls < MaxSpsCalls
    /\ DecodeBufferingPeriod(data)
    /\ ncalls' = ncalls + 1
    /\ UNCHANGED spsRest

SpsNext ==
    \/ \E data \in SpsInputs : SpsDecode(data)
    \/ \E data \in PpsInputs : PpsDecode(data)
    \/ \E data \in SliceInputs, null \in NullReads : SliceDecode(data, null)
    \/ \E data \in SeiInputs : SeiDecode(data)

SpecSps == SpsInit /\ [][SpsNext]_vars

(***************************************************************************)
(* SpecRaw: gst_nal_bs_read_ue over raw byte ranges, the empty range and   *)
(* ranges of zero bytes among them                                         *)
(***************************************************************************)
MaxRawLen == 3

RawByteVals == {0, 128, 255}

RawTails == {<<>>, <<128>>, <<0, 0, 0, 1>>, <<255, 255, 255, 255, 255>>}

\* every short range, and runs of 4 to 8 zero bytes with a tail
RawRanges ==
    SeqsUpTo(RawByteVals, MaxRawLen)
        \cup {Zeros(k) \o t : k \in 4..8, t \in RawTails}

RawInit ==
    /\ ue_v = -1
    /\ ue_data \in RawRanges
    /\ ue_res = [done |-> FALSE, i |-> 0, res |-> WZero]
    /\ BsIdle
    /\ ElemIdle
    /\ build_shl32 \in ShlOutcomes

SpecRaw == RawInit /\ [][UeNext]_vars

(***************************************************************************)
(* SpecType: one slice of any slice_type, then a P slice, on the forward   *)
(* path or on the reverse path                                             *)
(***************************************************************************)
MaxSliceType == 14

\* non-IDR (0x41) and IDR (0x65) slices of every slice_type up to the bound
TypeNals == {<<h>> \o SlicePayload(t) : h \in {65, 101}, t \in 0..MaxSliceType}

TypeInit ==
    /\ \E c \in RevConfigs, nal \in TypeNals :
          /\ packetized = c.packetized
          /\ nal_length_size = c.nal_length_size
          /\ stream = Framed(c.packetized, c.nal_length_size, nal)
                        \o Framed(c.packetized, c.nal_length_size, PNal)
    /\ split_packetized = FALSE
    /\ src_caps = TRUE
    /\ rate \in {1, -1}
    /\ adapter = <<>>
    /\ adapter_ts = <<>>
    /\ discont = FALSE
    /\ RevIdle
    /\ StoreIdle
    /\ out = <<>>
    /\ last = NoCall
    /\ ncalls = 0
    /\ stream_pos = 0
    /\ trace = <<>>
    /\ build_shl32 = 1
    /\ BsIdle
    /\ UeIdle

\* the next buffer of the stream: the first unit, then the P slice
TypeChunk ==
    IF stream_pos = 0
    THEN SubSeq(stream, 1,
                Len(stream) - Len(Framed(packetized, nal_length_size, PNal)))
    ELSE SubSeq(stream, stream_pos + 1, Len(stream))

\* gst_h264_parse_chain with segment.rate > 0 on the next buffer
TypeForward(disc) ==
    /\ rate > 0
    /\ pc = "idle"
    /\ stream_pos < Len(stream)
    /\ ChainDefaultCaps
    /\ gst_h264_parse_chain_forward(disc, TypeChunk, 0)
    /\ stream_pos' = stream_pos + Len(TypeChunk)
    /\ UNCHANGED <<stream, trace, rate, revVars, storeVars, ncalls,
                   build_shl32, bsVars, ueVars>>

\* gst_h264_parse_chain with segment.rate < 0 on the next buffer
TypeReverse(disc) ==
    /\ rate < 0
    /\ stream_pos < Len(stream)
    /\ ChainDefaultCaps
    /\ RevEnter(disc, TypeChunk, FALSE)
    /\ stream_pos' = stream_pos + Len(TypeChunk)
    /\ UNCHANGED <<stream, trace, rate, fwdVars, storeVars, build_shl32,
                   bsVars, ueVars>>

TypeNext ==
    \/ \E disc \in BOOLEAN : TypeForward(disc)
    \/ \E disc \in BOOLEAN : TypeReverse(disc)
    \/ RevDrain /\ UNCHANGED <<cfgVars, revRest>>
    \/ RevScan /\ UNCHANGED <<cfgVars, revRest>>

SpecType == TypeInit /\ [][TypeNext]_vars

(***************************************************************************)
(* SpecGroups: reverse playback of a byte stream: buffers in groups, each  *)
(* DISCONT beginning a group that is earlier in time, then end of stream;  *)
(* every call and the units pushed kept in trace                           *)
(***************************************************************************)
MaxGroupCalls == 3

\* buffers that begin with a start code, that begin inside one, that end
\* inside one, and that hold none
GroupChunks ==
    {StartCode \o IdrNal, StartCode \o PNal, <<0, 1>> \o PNal,
     StartCode \o P5Nal \o <<0, 0>>, <<0, 0, 0>>, <<1, 65, 192>>, <<7, 7>>}

GroupInit ==
    /\ packetized = FALSE
    /\ nal_length_size = 4
    /\ split_packetized = FALSE
    /\ src_caps = TRUE
    /\ rate = -1
    /\ adapter = <<>>
    /\ adapter_ts = <<>>
    /\ discont = FALSE
    /\ RevIdle
    /\ StoreIdle
    /\ out = <<>>
    /\ last = NoCall
    /\ ncalls = 0
    /\ stream = <<>>
    /\ stream_pos = 0
    /\ trace = <<>>
    /\ build_shl32 = 1
    /\ BsIdle
    /\ UeIdle

groupRest ==
    <<rate, fwdVars, storeVars, stream, stream_pos, build_shl32, bsVars, ueVars>>

\* gst_h264_parse_chain with segment.rate < 0; the units the call before
\* pushed are kept with the entry
GroupChain(chunk, disc) ==
    /\ rate < 0
    /\ ncalls < MaxGroupCalls
    /\ last.op # "eos"
    /\ ChainDefaultCaps
    /\ RevEnter(disc, chunk, FALSE)
    /\ trace' = Append(trace, [op |-> "chain", buffer |-> chunk,
                               discont |-> disc, pushed |-> out])
    /\ UNCHANGED groupRest

\* GST_EVENT_EOS with segment.rate < 0
GroupEos ==
    /\ rate < 0
    /\ last.op # "eos"
    /\ RevEnter(TRUE, <<>>, TRUE)
    /\ trace' = Append(trace, [op |-> "eos", buffer |-> <<>>,
                               discont |-> TRUE, pushed |-> out])
    /\ UNCHANGED <<cfgVars, groupRest>>

GroupNext ==
    \/ \E chunk \in GroupChunks, disc \in BOOLEAN : GroupChain(chunk, disc)
    \/ GroupEos
    \/ RevDrain /\ UNCHANGED <<cfgVars, trace, groupRest>>
    \/ RevScan /\ UNCHANGED <<cfgVars, trace, groupRest>>
    \/ RevEosFlush /\ UNCHANGED <<cfgVars, trace, groupRest>>

SpecGroups == GroupInit /\ [][GroupNext]_vars

(***************************************************************************)
(* SpecLocal: the forward path in byte-stream mode over one unit and what  *)
(* follows it, cut into buffers at any places                              *)
(***************************************************************************)
\* whole slices, a parameter set, and slices cut off after the header byte
LocalNals == {IdrNal, PNal, SpsNal, <<101>>, <<65>>}

\* what is buffered behind the unit: a start code and a NAL unit
LocalFollowers ==
    {StartCode \o nal : nal \in {PNal, IdrNal, <<65, 255, 255, 255, 255>>,
                                  <<65, 255, 255, 254, 32>>}}

LocalInit ==
    /\ \E nal \in LocalNals, f \in LocalFollowers :
          stream = StartCode \o nal \o f
    /\ packetized = FALSE
    /\ nal_length_size = 4
    /\ split_packetized = FALSE
    /\ stream_pos = 0
    /\ trace = <<>>
    /\ src_caps = TRUE
    /\ rate = 1
    /\ adapter = <<>>
    /\ adapter_ts = <<>>
    /\ discont = FALSE
    /\ RevIdle
    /\ StoreIdle
    /\ out = <<>>
    /\ last = NoCall
    /\ ncalls = 0
    /\ build_shl32 = 1
    /\ BsIdle
    /\ UeIdle

SpecLocal == LocalInit /\ [][FwdNext]_vars

(***************************************************************************)
(* SpecElem: the element under buffers in both directions, events, state   *)
(* changes and parameter-set decodes                                       *)
(***************************************************************************)
MaxElemCalls == 5

\* byte-stream buffers: an IDR slice and a P slice behind their start codes,
\* and the end of a start code with a P slice behind it
ElemChunks == {StartCode \o IdrNal, StartCode \o PNal, <<0, 1>> \o PNal}

\* an SPS for id 0 that decodes, one for id 1 that is rejected for its
\* log2_max_frame_num_minus4, and a PPS for id 1
ElemSps ==
    {SpsEncode([profile_idc |-> 66, sps_id |-> 0, pic_order_cnt_type |-> 0,
                log2_max_frame_num_minus4 |-> 0, vui |-> "none"]),
     SpsEncode([profile_idc |-> 66, sps_id |-> 1, pic_order_cnt_type |-> 0,
                log2_max_frame_num_minus4 |-> 13, vui |-> "none"])}

ElemPps == {PpsEncode([pps_id |-> 1, sps_id |-> 0])}

ElemInit ==
    /\ ElemIdle
    /\ build_shl32 = 1
    /\ BsIdle
    /\ UeIdle

elemRest == <<inVars, build_shl32, bsVars, ueVars>>

\* gst_h264_parse_chain: the forward path for segment.rate > 0, else the
\* reverse path
ElemChain(chunk, disc) ==
    /\ pc = "idle"
    /\ ncalls < MaxElemCalls
    /\ ncalls' = ncalls + 1
    /\ ChainDefaultCaps
    /\ IF rate > 0
       THEN /\ gst_h264_parse_chain_forward(disc, chunk, 0)
            /\ UNCHANGED revVars
       ELSE /\ RevEnter(disc, chunk, FALSE)
            /\ UNCHANGED fwdVars
    /\ UNCHANGED <<rate, storeVars, elemRest>>

ElemEos ==
    /\ ncalls < MaxElemCalls
    /\ IF rate < 0
       THEN RevEnter(TRUE, <<>>, TRUE) /\ UNCHANGED <<rate, fwdVars, storeVars>>
       ELSE FwdEos /\ ncalls' = ncalls + 1
    /\ UNCHANGED <<cfgVars, elemRest>>

ElemEvent(A) ==
    /\ ncalls < MaxElemCalls
    /\ A
    /\ ncalls' = ncalls + 1
    /\ UNCHANGED <<cfgVars, elemRest>>

ElemDecode(A) ==
    /\ ncalls < MaxElemCalls
    /\ A
    /\ ncalls' = ncalls + 1
    /\ last' = [NoCall EXCEPT !.op = "decode"]
    /\ UNCHANGED <<cfgVars, rate, fwdVars, revVars, out, elemRest>>

ElemStep(A) ==
    /\ A
    /\ UNCHANGED <<cfgVars, rate, fwdVars, storeVars, elemRest>>

ElemNext ==
    \/ \E chunk \in ElemChunks, disc \in BOOLEAN : ElemChain(chunk, disc)
    \/ ElemEos
    \/ ElemStep(RevDrain)
    \/ ElemStep(RevScan)
    \/ ElemStep(RevEosFlush)
    \/ \E r \in {-1, 1} : ElemEvent(NewSegment(r))
    \/ ElemEvent(FlushStop)
    \/ ElemEvent(PausedToReady)
    \/ ElemEvent(ReadyToPaused)
    \/ \E data \in ElemSps : ElemDecode(DecodeSps(data))
    \/ \E data \in ElemPps : ElemDecode(DecodePps(data))

SpecElem == ElemInit /\ [][ElemNext]_vars

(***************************************************************************)
(* Claims                                                                  *)
(***************************************************************************)
\* C1: read bit by bit, the reader yields exactly the bits of the same range
\* with each 00 00 03 reduced to 00 00: what it has delivered is always a
\* prefix of those bits, and once it reports eos it has delivered them all.
C1_BitsMatchReducedRange ==
    bs_last.only1 =>
        /\ IsPrefix(bs_bits, RefBits(bs_data))
        /\ (gst_nal_bs_eos(bs, bs_data) => bs_bits = RefBits(bs_data))

\* C1: the reader has reached eos on a range that holds a 00 00 03 marker
C1_Witness ==
    /\ bs_last.only1
    /\ gst_nal_bs_eos(bs, bs_data)
    /\ bs_data = <<0, 0, 3, 128>>
    /\ bs_bits = RefBits(bs_data)

\* C2: decoding the Exp-Golomb code of v returns v
C2_UeRoundTrip == ue_res.done => ue_res.res = WFromNat(ue_v)

\* C2: a value whose code spans several bytes has been decoded
C2_Witness == ue_v = 65535 /\ ue_res.done /\ ue_res.res = W32(0, 65535)

\* the plain reading of one unsigned Exp-Golomb code at the head of bits:
\* whether the code is complete, its value (65536 for any value above
\* 65535), and the bits after it
RECURSIVE LeadingZeros(_)
LeadingZeros(bits) ==
    IF bits = <<>> \/ bits[1] = 1 THEN 0 ELSE 1 + LeadingZeros(Tail(bits))

RefUe(bits) ==
    LET k == LeadingZeros(bits)
    IN  IF Len(bits) < 2 * k + 1 THEN [ok |-> FALSE, v |-> 0, rest |-> <<>>]
        ELSE [ok |-> TRUE,
              v |-> IF k <= 15 THEN BitsToNat(SubSeq(bits, k + 1, 2 * k + 1)) - 1
                    ELSE 65536,
              rest |-> SubSeq(bits, 2 * k + 2, Len(bits))]

\* what a unit's own bytes say of it: the type of its first NAL unit and, for
\* a slice whose first_mb_in_slice and slice_type lie wholly inside the unit,
\* its slice_type (-1 otherwise)
UnitHasNal(u, nls) == Len(u.bytes) >= nls + 1
UnitNalType(u, nls) == u.bytes[nls + 1] % 32
UnitIsSlice(u, nls) == UnitNalType(u, nls) \in 1..5
UnitSliceType(u, nls) ==
    LET mb == RefUe(RefBits(SubSeq(u.bytes, nls + 2, Len(u.bytes))))
        st == RefUe(mb.rest)
    IN  IF mb.ok /\ st.ok THEN st.v ELSE -1

C3Chunk == StartCode \o SpsNal \o StartCode \o IdrNal

\* the last call was chain_forward in byte-stream mode, on the single chunk
\* [00 00 00 01, SPS, 00 00 00 01, IDR slice], with nothing accumulated before
C3Case ==
    /\ last.op = "chain_forward"
    /\ ~packetized
    /\ last.pre = <<>> \/ last.discont
    /\ last.chunk = C3Chunk

\* C3 as stated: the single chunk [start code, SPS, start code, IDR slice]
\* makes the forward path emit exactly two units, the second with
\* delta_unit = false.
C3_TwoUnitsEmitted ==
    C3Case => Len(out) = 2 /\ out[2].delta_unit = FALSE

\* C3 amended: that call emits exactly one unit, the SPS unit with
\* delta_unit = false, and keeps the IDR slice in the adapter; the IDR slice is
\* emitted, first and with delta_unit = false, by the later call whose chunk
\* brings the following start code and at least one byte after it.
C3_OneUnitThenIdr ==
    /\ C3Case =>
          /\ Len(out) = 1
          /\ out[1].bytes = StartCode \o SpsNal
          /\ out[1].delta_unit = FALSE
          /\ adapter = StartCode \o IdrNal
    /\ ( /\ last.op = "chain_forward"
         /\ ~packetized
         /\ ~last.discont
         /\ last.pre = StartCode \o IdrNal
         /\ Len(last.chunk) >= 5
         /\ SubSeq(last.chunk, 1, 4) = StartCode )
       => /\ Len(out) >= 1
          /\ out[1].bytes = StartCode \o IdrNal
          /\ out[1].delta_unit = FALSE

\* C3: the single chunk has been handled, and later the IDR slice came out
C3_Witness ==
    /\ last.op = "chain_forward"
    /\ ~packetized
    /\ ~last.discont
    /\ last.pre = StartCode \o IdrNal
    /\ stream_pos > Len(C3Chunk)
    /\ SubSeq(stream, 1, Len(C3Chunk)) = C3Chunk
    /\ Len(out) >= 1
    /\ out[1].bytes = StartCode \o IdrNal

\* the bytes and the DELTA_UNIT flags of a sequence of pushed units
UnitBytes(units) == [k \in 1..Len(units) |-> units[k].bytes]
UnitDeltas(units) == [k \in 1..Len(units) |-> units[k].delta_unit]
UnitDisconts(units) == [k \in 1..Len(units) |-> units[k].discont]
LinkBuffers(queue) == [k \in 1..Len(queue) |-> queue[k].buffer]

\* the four packets [P, P, I, P] of C4; the two leading P slices differ in
\* slice_type (0 and 5) so that their order shows
C4P1 == Framed(TRUE, 2, PNal)
C4P2 == Framed(TRUE, 2, P5Nal)
C4I == Framed(TRUE, 2, IdrNal)
C4P4 == Framed(TRUE, 2, PNal)

\* the four packets were gathered by four calls without discont into empty
\* queues, and the call that delivers the discont has returned
C4Case ==
    /\ packetized
    /\ last.op \in {"chain_reverse", "eos"}
    /\ last.discont
    /\ pc = "idle"
    /\ last.pre.gather = <<C4P4, C4I, C4P2, C4P1>>
    /\ last.pre.decode = <<>>
    /\ ~last.pre.have_i_frame

\* C4 as stated: the four units [P, P, I, P] come out in forward order with
\* delta_unit [true, true, false, true].
C4_FourUnitsForward ==
    C4Case =>
        /\ UnitBytes(out) = <<C4P1, C4P2, C4I, C4P4>>
        /\ UnitDeltas(out) = <<TRUE, TRUE, FALSE, TRUE>>

\* C4 amended: a discont buffer makes the call emit only the I slice
\* (delta_unit false, discont true) and the P slice after it (delta_unit
\* true); the two leading P slices stay in the decode queue in forward order
\* and have_i_frame is false.  At end of stream the two are emitted after
\* these, in forward order, with delta_unit true, and the queue is empty.
C4_FromIFrameOnly ==
    C4Case =>
        /\ SubSeq(out, 1, 2) = <<Unit(C4I, TRUE, FALSE), Unit(C4P4, FALSE, TRUE)>>
        /\ ~have_i_frame
        /\ IF last.op = "chain_reverse"
           THEN /\ Len(out) = 2
                /\ LinkBuffers(decode) = <<C4P1, C4P2>>
                /\ gather = <<last.chunk>>
           ELSE /\ SubSeq(out, 3, Len(out))
                      = <<Unit(C4P1, TRUE, TRUE), Unit(C4P2, FALSE, TRUE)>>
                /\ decode = <<>>
                /\ gather = <<>>

\* C4: the discont arrived with a buffer after [P, P, I, P] were gathered
C4_Witness ==
    /\ C4Case
    /\ last.op = "chain_reverse"
    /\ Len(out) = 2
    /\ decode_len = 2

\* gst_h264_parse_queue_buffer received a slice that is not an I slice while
\* the decode queue held an I slice
C5Case ==
    /\ qb.called
    /\ \E k \in 1..Len(qb.pre_decode) : qb.pre_decode[k].i_frame
    /\ qb.link.slice
    /\ ~qb.link.i_frame

\* C5 as stated: the queue is flushed before the P slice is queued and the
\* first unit the flush emits is the I slice, with discont = true.
C5_ISliceEmittedFirst ==
    C5Case =>
        /\ qb.flushed
        /\ qb.post_decode = <<qb.link>>
        /\ qb.pushed[1].bytes = qb.pre_decode[1].buffer
        /\ qb.pre_decode[1].i_frame
        /\ qb.pushed[1].discont

\* C5 amended: the queue is flushed before the P slice is queued; the flush
\* emits the whole queue from its head, the most recently queued unit, which
\* is the I slice only when nothing was queued after it; that first unit
\* alone has discont = true, and the I slice is emitted with delta_unit
\* false.
C5_QueueHeadEmittedFirst ==
    C5Case =>
        /\ qb.flushed
        /\ qb.post_decode = <<qb.link>>
        /\ UnitBytes(qb.pushed) = LinkBuffers(qb.pre_decode)
        /\ \A k \in 1..Len(qb.pushed) : qb.pushed[k].discont <=> k = 1
        /\ \A k \in 1..Len(qb.pushed) :
              qb.pre_decode[k].i_frame => ~qb.pushed[k].delta_unit

\* C5: a P slice arrived while the queue held an SPS queued after an I slice
\* and one more unit behind them
C5_Witness ==
    /\ C5Case
    /\ Len(qb.pre_decode) >= 3
    /\ qb.pre_decode[1].nal_type = NAL_SPS
    /\ qb.pre_decode[2].i_frame
    /\ qb.flushed

\* gst_nal_decode_sps was called on an SPS whose log2_max_frame_num_minus4
\* is coded as 13; its sps_id is what follows the three bytes of profile,
\* constraint flags and level
C6Fields == {f \in SpsFields : f.log2_max_frame_num_minus4 = 13 /\ f.sps_id < 32}
C6Inputs == {SpsEncode(f) : f \in C6Fields}
C6IdOf == [data \in C6Inputs |-> (CHOOSE f \in C6Fields : data = SpsEncode(f)).sps_id]

C6Case == dec.op = "decode_sps" /\ dec.data \in C6Inputs

C6Id == C6IdOf[dec.data]

\* C6: decoding an SPS whose log2_max_frame_num_minus4 is 13 fails and
\* leaves the table entry of its sps_id as it was: unchanged if it existed,
\* absent if it did not.
C6_FailedSpsLeavesEntry ==
    C6Case =>
        /\ ~dec.ret
        /\ IF C6Id \in DOMAIN dec.pre_sps
           THEN C6Id \in DOMAIN sps_buffers
                   /\ sps_buffers[C6Id] = dec.pre_sps[C6Id]
           ELSE C6Id \notin DOMAIN sps_buffers

\* C6: the failing SPS came for an id that already had an entry
C6_Witness ==
    /\ C6Case
    /\ ~dec.ret
    /\ C6Id \in DOMAIN dec.pre_sps
    /\ dec.pre_sps[C6Id].log2_max_frame_num_minus4 = 12

\* the last handler call was a FLUSH_STOP event or the change from PAUSED to
\* READY, both of which call gst_h264_parse_clear_queues
ClearCase == last.op \in {"flush_stop", "paused_to_ready"}

\* what gst_h264_parse_clear_queues is said to clear, as the state holds it
ClearedFields ==
    [gather |-> gather, decode |-> decode, prev |-> prev, adapter |-> adapter,
     have_i_frame |-> have_i_frame, decode_len |-> decode_len,
     sps_buffers |-> sps_buffers, pps_buffers |-> pps_buffers]

\* C7: clearing the queues is idempotent: a second clear right after a first
\* leaves the state the first one left, and that state has all parameter-set
\* tables empty, the decode queue empty and have_i_frame false.
C7_ClearIdempotentAllEmpty ==
    ClearCase =>
        /\ last.pre.cleared =>
              ClearedFields = [f \in DOMAIN ClearedFields |-> last.pre[f]]
        /\ sps_buffers = <<>>
        /\ pps_buffers = <<>>
        /\ decode = <<>>
        /\ ~have_i_frame

\* C8: after FLUSH_STOP or the change from PAUSED to READY the gather list,
\* the leftover, the adapter, the decode queue and every SPS and PPS table
\* entry are cleared, have_i_frame is false and the flush pushed no unit.
C8_FlushClearsAll ==
    ClearCase =>
        /\ gather = <<>>
        /\ prev = <<>>
        /\ adapter = <<>>
        /\ decode = <<>>
        /\ DOMAIN sps_buffers = {}
        /\ DOMAIN pps_buffers = {}
        /\ ~have_i_frame
        /\ out = <<>>

\* C9: on the forward path every emitted unit whose first NAL unit is a slice
\* with slice_type in 0..9, an SPS, a PPS or of any other type has
\* delta_unit = false exactly when it is an I slice (slice_type 2, 4, 7, 9)
\* or a parameter set (type 7 or 8).
C9_ForwardDeltaUnit ==
    last.op = "chain_forward" =>
        \A i \in 1..Len(out) :
            LET u  == out[i]
                st == UnitSliceType(u, nal_length_size)
            IN  UnitHasNal(u, nal_length_size) =>
                   IF UnitIsSlice(u, nal_length_size)
                   THEN st \in 0..9 =>
                           (u.delta_unit = FALSE <=> st \in {2, 4, 7, 9})
                   ELSE u.delta_unit = FALSE
                           <=> UnitNalType(u, nal_length_size) \in {7, 8}

\* C9: an I slice, a P slice and an SPS have been emitted, one of them in
\* packetized mode
C9_Witness ==
    /\ last.op = "chain_forward"
    /\ Len(out) = 3
    /\ \E i \in 1..3 : UnitIsSlice(out[i], nal_length_size)
                        /\ UnitSliceType(out[i], nal_length_size) = 7
                        /\ ~out[i].delta_unit
    /\ \E i \in 1..3 : UnitIsSlice(out[i], nal_length_size)
                        /\ UnitSliceType(out[i], nal_length_size) = 0
                        /\ out[i].delta_unit
    /\ \E i \in 1..3 : UnitNalType(out[i], nal_length_size) = 7
                        /\ ~out[i].delta_unit
    /\ packetized

\* C10: on the reverse path every unit emitted from the decode queue has
\* delta_unit = false exactly when it is an I slice (slice_type 2, 4, 7, 9)
\* or a parameter set (type 7 or 8).
C10_ReverseDeltaUnit ==
    last.op \in {"chain_reverse", "eos"} =>
        \A i \in 1..Len(out) :
            LET u == out[i]
            IN  u.delta_unit = FALSE
                   <=> \/ UnitNalType(u, nal_length_size) \in {NAL_SPS, NAL_PPS}
                       \/ /\ UnitIsSlice(u, nal_length_size)
                          /\ UnitSliceType(u, nal_length_size) \in {2, 4, 7, 9}

\* C10: the reverse path has emitted an SPS
C10_Witness ==
    /\ last.op \in {"chain_reverse", "eos"}
    /\ \E i \in 1..Len(out) : UnitNalType(out[i], nal_length_size) = NAL_SPS

(***************************************************************************)
(* C11: the discontinuity flag on the forward path                         *)
(***************************************************************************)
RECURSIVE Flatten(_)
Flatten(seqs) == IF seqs = <<>> THEN <<>> ELSE Head(seqs) \o Flatten(Tail(seqs))

\* the bytes the adapter held when call c of the trace began
TraceHeldBefore(c) == IF c = 1 THEN <<>> ELSE trace[c - 1].held

\* a buffer flagged DISCONT came no later than call c and no unit was pushed
\* between its arrival and call c
TraceDiscPending(c) ==
    \E d \in 1..c : /\ trace[d].discont
                    /\ \A e \in d..(c - 1) : trace[e].units = <<>>

\* C11: a buffer flagged DISCONT drops the bytes the adapter held before its
\* own bytes are appended (what the call pushes and what it leaves are the
\* buffer's bytes alone), and over the whole sequence of calls a pushed unit
\* has DISCONT set exactly when it is the first one pushed since a buffer
\* flagged DISCONT arrived
C11_DiscontFirstUnitOnly ==
    \A c \in 1..Len(trace) :
        /\ trace[c].discont =>
              Flatten(UnitBytes(trace[c].units)) \o trace[c].held = trace[c].chunk
        /\ \A i \in 1..Len(trace[c].units) :
              trace[c].units[i].discont <=> (i = 1 /\ TraceDiscPending(c))

\* a buffer flagged DISCONT found bytes in the adapter and pushed nothing; the
\* next call pushed two units, the first with DISCONT and the second without
C11_Witness ==
    \E c \in 2..(Len(trace) - 1) :
        /\ trace[c].discont
        /\ TraceHeldBefore(c) # <<>>
        /\ trace[c].units = <<>>
        /\ ~trace[c + 1].discont
        /\ Len(trace[c + 1].units) = 2
        /\ trace[c + 1].units[1].discont
        /\ ~trace[c + 1].units[2].discont

(***************************************************************************)
(* C12: the timestamp of a unit pushed on the forward path                 *)
(***************************************************************************)
\* C12: every unit pushed on the forward path has the timestamp of the
\* buffer that brought the unit's first byte
C12_TimestampOfFirstByte ==
    \A c \in 1..Len(trace) :
        \A i \in 1..Len(trace[c].units) :
            trace[c].stamps[i].timestamp = trace[c].stamps[i].arrived

\* a unit whose first byte came in an earlier buffer was pushed by a later call
C12_Witness ==
    \E c \in 2..Len(trace) :
        /\ ~trace[c].discont
        /\ trace[c].units # <<>>
        /\ trace[c].stamps[1].arrived < trace[c].timestamp

(***************************************************************************)
(* C13: the bytes of a unit pushed in packetized mode                      *)
(***************************************************************************)
\* call c of the trace brought exactly one length-prefixed NAL unit to an
\* empty adapter
C13Case(c) ==
    /\ packetized
    /\ trace[c].discont \/ TraceHeldBefore(c) = <<>>
    /\ trace[c].chunk \in {Framed(TRUE, nal_length_size, nal) :
                              nal \in {SpsNal, IdrNal, PNal}}

\* C13: in packetized mode a pushed unit begins at its NAL header byte, the
\* nal_length_size bytes of the length field are not part of it
C13_UnitWithoutLengthField ==
    \A c \in 1..Len(trace) :
        C13Case(c) =>
            \A i \in 1..Len(trace[c].units) :
                trace[c].units[i].bytes =
                    SubSeq(trace[c].chunk, nal_length_size + 1,
                           Len(trace[c].chunk))

\* such a call pushed a unit, in split-packetized mode
C13_Witness ==
    /\ split_packetized
    /\ \E c \in 1..Len(trace) : C13Case(c) /\ Len(trace[c].units) = 1

(***************************************************************************)
(* C14: what gst_h264_parse_sink_setcaps accepts                           *)
(***************************************************************************)
\* C14: a codec_data is refused with one of the two errors exactly when it
\* has fewer than 7 bytes or its first byte is not 1; an accepted one leaves
\* packetized set and nal_length_size = (low two bits of its fifth byte) + 1,
\* within 1..4; caps without codec_data leave byte-stream mode with
\* nal_length_size = 4
C14_SetcapsValidation ==
    last.op = "setcaps" =>
        /\ last.error \in {"avcc_too_small", "wrong_version"}
              <=> (last.has /\ (Len(last.chunk) < 7 \/ last.chunk[1] # 1))
        /\ ~last.ret <=> last.error \in {"avcc_too_small", "wrong_version"}
        /\ last.has /\ last.ret =>
              /\ packetized
              /\ nal_length_size \in 1..4
              /\ \E low \in 0..3, high \in 0..63 :
                    /\ last.chunk[5] = 4 * high + low
                    /\ nal_length_size = low + 1
        /\ ~last.has => ~packetized /\ nal_length_size = 4

\* a record was accepted with length size 1, then a record of six bytes was
\* refused, then caps without codec_data were set
C14_Witness ==
    /\ Len(trace) = 3
    /\ trace[1].op = "setcaps" /\ trace[1].has /\ trace[1].ret
    /\ trace[1].post.nal_length_size = 1
    /\ trace[2].op = "setcaps" /\ trace[2].has /\ ~trace[2].ret
    /\ Len(trace[2].data) = 6
    /\ last.op = "setcaps" /\ ~last.has

(***************************************************************************)
(* C15: after a refused codec_data                                         *)
(***************************************************************************)
\* call c of the trace is a setcaps that was refused
CapsRefused(c) == trace[c].op = "setcaps" /\ ~trace[c].ret

\* no setcaps was accepted in the calls after c up to d
CapsStillRefused(c, d) ==
    \A e \in (c + 1)..d : trace[e].op = "setcaps" => ~trace[e].ret

\* C15: a refused codec_data leaves packetized and nal_length_size as they
\* were, and until caps are accepted no buffer chained afterwards is taken
\* into the adapter or pushes a unit
C15_RefusedCapsStopStream ==
    \A c \in 1..Len(trace) :
        CapsRefused(c) =>
            /\ trace[c].post = trace[c].pre
            /\ \A d \in (c + 1)..Len(trace) :
                  (trace[d].op = "chain" /\ CapsStillRefused(c, d)) =>
                      /\ trace[d].units = <<>>
                      /\ trace[d].held = trace[d].pre_held

\* a codec_data was refused after byte-stream caps had been accepted, and a
\* buffer was chained after it
C15_Witness ==
    /\ Len(trace) = 3
    /\ trace[1].op = "setcaps" /\ ~trace[1].has
    /\ CapsRefused(2)
    /\ trace[3].op = "chain"

(***************************************************************************)
(* C16: an SPS whose HRD parameters give cpb_cnt_minus1 > 31               *)
(***************************************************************************)
C16Fields ==
    {f \in SpsFields : /\ f.vui = "hrd32"
                       /\ f.log2_max_frame_num_minus4 <= 12
                       /\ f.sps_id < 32}
C16Inputs == {SpsEncode(f) : f \in C16Fields}
C16IdOf ==
    [data \in C16Inputs |-> (CHOOSE f \in C16Fields : data = SpsEncode(f)).sps_id]

C16Case == dec.op = "decode_sps" /\ dec.data \in C16Inputs

\* C16: gst_nal_decode_sps fails on an SPS whose VUI holds HRD parameters
\* with cpb_cnt_minus1 = 32
C16_HrdRangeFailsSps ==
    C16Case => ~dec.ret

\* such an SPS was decoded and the value 32 was read into its entry
C16_Witness ==
    /\ C16Case
    /\ C16IdOf[dec.data] \in DOMAIN sps_buffers
    /\ sps_buffers[C16IdOf[dec.data]].cpb_cnt_minus1 = 32
    /\ sps_buffers[C16IdOf[dec.data]].nal_hrd_parameters_present_flag = 1

(***************************************************************************)
(* C17: a slice header or a buffering period SEI that names an id without  *)
(* an entry                                                                *)
(***************************************************************************)
C17SliceId == [data \in SliceInputs |-> CHOOSE id \in RefIds : data = SliceEncode(id)]
C17SeiId == [data \in SeiInputs |-> CHOOSE id \in RefIds : data = SeiEncode(id)]

\* the slice header named a pps_id without an entry, or one whose entry names
\* an sps_id without an entry or out of range
C17SliceCase ==
    /\ dec.op = "decode_slice_header"
    /\ \/ C17SliceId[dec.data] \notin DOMAIN dec.pre_pps
       \/ dec.pre_pps[C17SliceId[dec.data]].sps_id \notin DOMAIN dec.pre_sps

\* the SEI named an sps_id without an entry or out of range
C17SeiCase ==
    /\ dec.op = "decode_buffering_period"
    /\ C17SeiId[dec.data] \notin DOMAIN dec.pre_sps

\* C17: such a decode returns failure, reads nothing through a NULL pointer,
\* and leaves both tables as they were: no entry changed, none added
C17_UnknownIdFailsLocally ==
    (C17SliceCase \/ C17SeiCase) =>
        /\ ~dec.ret
        /\ ~dec.crashed
        /\ ~dec.null_deref
        /\ sps_buffers = dec.pre_sps
        /\ pps_buffers = dec.pre_pps

\* a slice header named a PPS whose sps_id is out of range, with the tables
\* not empty
C17_Witness ==
    /\ C17SliceCase
    /\ C17SliceId[dec.data] \in DOMAIN dec.pre_pps
    /\ dec.pre_pps[C17SliceId[dec.data]].sps_id >= MAX_SPS_COUNT

(***************************************************************************)
(* C18: length fields in a packetized buffer on the reverse path           *)
(***************************************************************************)
\* C18: whatever the length fields of a packetized buffer say, the NAL loop
\* of gst_h264_parse_queue_buffer stays inside the buffer: the size left
\* never wraps below zero and the loop ends at the buffer's end
C18_QueueLoopStaysInside ==
    (qb.called /\ packetized) => ~qb.link.oob

\* a buffer whose first length field (one byte) says more than the bytes
\* behind it was handed to gst_h264_parse_queue_buffer
C18_Witness ==
    /\ qb.called
    /\ packetized
    /\ nal_length_size = 1
    /\ Len(qb.link.buffer) >= 2
    /\ qb.link.buffer[1] > Len(qb.link.buffer) - 1

(***************************************************************************)
(* C19: what a flush of the decode queue pushes and leaves                 *)
(***************************************************************************)
\* the units pushed by a step
C19Pushed == SubSeq(out', Len(out) + 1, Len(out'))

\* every link of queue was pushed once, in queue order, the first with
\* DISCONT and no other
C19InOrder(queue, units) ==
    /\ Len(units) = Len(queue)
    /\ \A k \in 1..Len(queue) :
          /\ units[k].bytes = queue[k].buffer
          /\ units[k].discont = (k = 1)

\* the flush at end of stream
C19EosFlush ==
    pc = "eos_flush" =>
        /\ C19InOrder(decode, C19Pushed)
        /\ decode' = <<>>
        /\ decode_len' = 0
        /\ ~have_i_frame'

\* the flush inside gst_h264_parse_queue_buffer, which then prepends its link
C19QueueFlush ==
    (pc \in {"drain", "scan"} /\ decode' # decode /\ qb'.flushed) =>
        /\ C19InOrder(decode, C19Pushed)
        /\ decode' = <<qb'.link>>
        /\ decode_len' = 1
        /\ ~have_i_frame'

\* C19: every flush of the decode queue pushes each queued unit once, in
\* queue order from the head, the first with DISCONT set and the others
\* without, and leaves the queue empty, decode_len 0 and have_i_frame false
\* (inside gst_h264_parse_queue_buffer: before the new link is prepended)
C19_FlushPushesQueueInOrder == [][C19EosFlush /\ C19QueueFlush]_vars

\* both flushes happened on a queue of two or more units: the one at end of
\* stream has just run, after one inside gst_h264_parse_queue_buffer
C19_Witness ==
    /\ last.op = "eos"
    /\ pc = "idle"
    /\ Len(out) >= 2
    /\ decode = <<>>
    /\ qb.flushed
    /\ Len(qb.pre_decode) >= 2

(***************************************************************************)
(* C20: the decode queue at end of stream                                  *)
(***************************************************************************)
\* the step that ends the handling of GST_EVENT_EOS with segment.rate >= 0
C20FwdEosStep ==
    pc = "idle" /\ pc' = "idle" /\ rate >= 0 /\ last'.op = "eos"
        /\ ncalls' = ncalls + 1

\* C20: whatever the direction of playback, the handling of GST_EVENT_EOS
\* ends with every unit of the decode queue pushed and the queue empty
C20_EosFlushesQueue ==
    [][/\ pc = "eos_flush" =>
            /\ decode' = <<>>
            /\ UnitBytes(C19Pushed) = LinkBuffers(decode)
       /\ C20FwdEosStep =>
            /\ decode' = <<>>
            /\ UnitBytes(out') = LinkBuffers(decode)]_vars

\* GST_EVENT_EOS was handled with segment.rate > 0 and units in the decode
\* queue
C20_Witness ==
    /\ last.op = "eos"
    /\ pc = "idle"
    /\ rate > 0
    /\ decode # <<>>

(***************************************************************************)
(* C21: the reverse split of a group does not depend on its cuts           *)
(***************************************************************************)
CutIsChain(e) == e.op = "chain"
CutIsQueued(e) == e.op = "queue_buffer"
CutBuffers(entries) == [k \in 1..Len(entries) |-> entries[k].buffer]

\* the buffers the group arrived in, and the buffers handed to the decode queue
C21Chunks == CutBuffers(SelectSeq(trace, CutIsChain))
C21Units == CutBuffers(SelectSeq(trace, CutIsQueued))

\* the discont behind the group was handled to its end
C21Done == stream_pos = Len(stream) + 1 /\ pc = "idle"

\* the group scanned as one buffer
C21Whole == RevSplit(stream, Len(stream), <<255, 255, 255, 255>>, <<>>)

\* C21: however a group of a byte stream is cut into buffers, cuts inside a
\* start code included, the discont that follows hands the same buffers in
\* the same order to the decode queue and keeps the same leftover as when
\* the group arrives as one buffer
C21_CutIndependent ==
    C21Done =>
        /\ C21Units = C21Whole.units
        /\ prev = C21Whole.prev

\* a group arrived with a cut inside a start code, after 00 00 and before
\* 00 01; units were handed to the decode queue and a leftover was kept
C21_Witness ==
    /\ C21Done
    /\ \E k \in 1..Len(C21Chunks) - 1 :
          /\ Len(C21Chunks[k]) >= 2
          /\ SubSeq(C21Chunks[k], Len(C21Chunks[k]) - 1, Len(C21Chunks[k])) = <<0, 0>>
          /\ Len(C21Chunks[k + 1]) >= 3
          /\ SubSeq(C21Chunks[k + 1], 1, 2) = <<0, 1>>
    /\ Len(C21Units) >= 2
    /\ prev # <<>>

(***************************************************************************)
(* C22: have_i_frame and the decode queue                                  *)
(***************************************************************************)
C22QueueHoldsI == \E k \in 1..Len(decode) : decode[k].i_frame

\* C22: in every state have_i_frame is set exactly when some unit of the
\* decode queue has its i_frame set
C22_HaveIFrameIffQueued == have_i_frame <=> C22QueueHoldsI

\* the queue was flushed by a slice behind an I frame, which cleared
\* have_i_frame; an I frame queued since has set it again, and the queue
\* holds that I frame with other units
C22_Witness ==
    /\ pc = "idle"
    /\ have_i_frame
    /\ C22QueueHoldsI
    /\ Len(decode) >= 2
    /\ \E k \in 1..Len(decode) : ~decode[k].i_frame
    /\ \E k \in 1..Len(out) : ~out[k].delta_unit

(***************************************************************************)
(* C23: what a reverse chain call leaves behind                            *)
(***************************************************************************)
\* a call of gst_h264_parse_chain_reverse with a buffer has returned
C23Returned == last.op = "chain_reverse" /\ pc = "idle"

\* C23: a buffer without DISCONT on the reverse path is prepended to the
\* gather list and nothing else happens: no unit is pushed, the decode queue,
\* have_i_frame and the leftover stay as they were; after a call with
\* DISCONT the gather list holds the new buffer and nothing else
C23_GatherOnly ==
    C23Returned =>
        IF last.discont
        THEN gather = <<last.chunk>>
        ELSE /\ gather = <<last.chunk>> \o last.pre.gather
             /\ out = <<>>
             /\ decode = last.pre.decode
             /\ have_i_frame = last.pre.have_i_frame
             /\ prev = last.pre.prev

\* a buffer without DISCONT has arrived while the gather list held another
\* buffer, the decode queue an I frame and the leftover some bytes
C23_Witness ==
    /\ C23Returned
    /\ ~last.discont
    /\ Len(gather) >= 2
    /\ gather[2] # last.chunk
    /\ decode # <<>>
    /\ have_i_frame
    /\ prev # <<>>

(***************************************************************************)
(* C24: the length field of a packetized unit, split_packetized set        *)
(***************************************************************************)
\* the bytes the adapter held when the loop of the last forward call began
FwdCallData == IF last.discont THEN last.chunk ELSE last.pre \o last.chunk

\* the claim's effective NAL length for a length field read as the word w
\* with avail bytes buffered: the declared length when it is at least 2 and
\* fits with its length field, else all that is buffered behind the field
C24Effective(w, avail, nls) ==
    IF w.hi = 0 /\ w.lo >= 2 /\ w.lo + nls <= avail THEN w.lo ELSE avail - nls

\* the units the claim says are cut from data, and what is left of it
RECURSIVE C24Split(_, _, _)
C24Split(data, nls, units) ==
    IF Len(data) < nls + 1 THEN [units |-> units, rest |-> data]
    ELSE C24Split(
            SubSeq(data,
                   nls + C24Effective(BeWord(SubSeq(data, 1, nls)), Len(data), nls) + 1,
                   Len(data)),
            nls,
            Append(units,
                   SubSeq(data, 1,
                          nls + C24Effective(BeWord(SubSeq(data, 1, nls)), Len(data), nls))))

C24Case == last.op = "chain_forward" /\ packetized /\ split_packetized

\* C24: packetized with split_packetized set, while nal_length_size + 1 bytes
\* or more are buffered a unit of nal_length_size + effective length bytes is
\* pushed, the effective length being the declared one when that is at least
\* 2 and fits in what is buffered, else all that is buffered behind the field;
\* so the call ends with fewer than nal_length_size + 1 bytes held
C24_LengthFieldClamped ==
    C24Case =>
        /\ UnitBytes(out) = C24Split(FwdCallData, nal_length_size, <<>>).units
        /\ adapter = C24Split(FwdCallData, nal_length_size, <<>>).rest
        /\ Len(adapter) < nal_length_size + 1

\* a call whose buffered bytes began with a four-byte length field of
\* 2^32 - 1 or 2^32 - 4 and held a NAL header behind it
C24_Witness ==
    /\ C24Case
    /\ nal_length_size = 4
    /\ Len(FwdCallData) >= 5
    /\ SubSeq(FwdCallData, 1, 4) \in {<<255, 255, 255, 255>>, <<255, 255, 255, 252>>}

(***************************************************************************)
(* C30: a packetized buffer, split_packetized clear                        *)
(***************************************************************************)
C30Case == last.op = "chain_forward" /\ packetized /\ ~split_packetized

\* C30: packetized with split_packetized clear, every buffer, of any size and
\* with any length field, is pushed as one unit that holds the buffer's bytes
C30_OneUnitPerBuffer ==
    C30Case => UnitBytes(out) = <<last.chunk>>

\* a buffer that ends inside its length field has arrived
C30_Witness ==
    /\ C30Case
    /\ last.chunk # <<>>
    /\ Len(last.chunk) <= nal_length_size

(***************************************************************************)
(* C25: an SPS or PPS whose id is not below the table size                 *)
(***************************************************************************)
\* the id an encoded SPS or PPS carries in the stream
C25SpsId == [data \in SpsInputs |-> (CHOOSE f \in SpsFields : data = SpsEncode(f)).sps_id]
C25PpsId == [data \in PpsInputs |-> (CHOOSE f \in PpsFields : data = PpsEncode(f)).pps_id]

\* the step decodes an SPS, a PPS, whose id is MAX_SPS_COUNT, MAX_PPS_COUNT,
\* or more
C25SpsStep == dec'.op = "decode_sps" /\ C25SpsId[dec'.data] >= MAX_SPS_COUNT
C25PpsStep == dec'.op = "decode_pps" /\ C25PpsId[dec'.data] >= MAX_PPS_COUNT

\* C25: gst_nal_decode_sps and gst_nal_decode_pps reject every id that is not
\* below the table size, ids of 256 and more included: the call fails, no
\* table entry is added or changed and h->sps, h->pps stay as they were
C25_OutOfRangeIdRejected ==
    [][/\ C25SpsStep =>
            /\ ~dec'.ret
            /\ sps_buffers' = sps_buffers
            /\ h_sps' = h_sps
       /\ C25PpsStep =>
            /\ ~dec'.ret
            /\ pps_buffers' = pps_buffers
            /\ h_pps' = h_pps]_vars

\* an SPS with the id 257 was decoded while the table had no entry 1
C25_Witness ==
    /\ dec.op = "decode_sps"
    /\ C25SpsId[dec.data] = 257
    /\ 1 \notin DOMAIN dec.pre_sps

(***************************************************************************)
(* C26: an SPS decoded for an id that has an entry                         *)
(***************************************************************************)
\* an SPS with an id below MAX_SPS_COUNT was decoded and the call succeeded
C26Case ==
    /\ dec.op = "decode_sps"
    /\ dec.ret
    /\ C25SpsId[dec.data] < MAX_SPS_COUNT

C26Id == C25SpsId[dec.data]

\* the tables after the same bytes are decoded with no entry in them
C26Fresh ==
    gst_nal_decode_sps(<<>>, -1, gst_nal_bs_init(dec.data), dec.data,
                       build_shl32).tbl

\* C26: after gst_nal_decode_sps has succeeded for the id k, the entry k is
\* what the same bytes give when decoded into an empty table, whatever was
\* decoded for k before, and the entries of the other ids are as they were
C26_LastSpsWins ==
    C26Case =>
        /\ DOMAIN sps_buffers = DOMAIN dec.pre_sps \cup {C26Id}
        /\ sps_buffers[C26Id] = C26Fresh[C26Id]
        /\ \A id \in DOMAIN dec.pre_sps \ {C26Id} :
              sps_buffers[id] = dec.pre_sps[id]

\* an SPS was decoded for an id whose entry held other values from an
\* earlier SPS
C26_Witness ==
    /\ C26Case
    /\ C26Id \in DOMAIN dec.pre_sps
    /\ dec.pre_sps[C26Id] # SpsNew
    /\ dec.pre_sps[C26Id] # C26Fresh[C26Id]

(***************************************************************************)
(* C27: reads at and past the end of the range                             *)
(***************************************************************************)
\* the bits of the reduced range that no read has delivered yet
C27Remaining ==
    SubSeq(RefBits(bs_data), Len(bs_bits) + 1, Len(RefBits(bs_data)))

\* a read of more bits than remain returns the remaining bits
C27Truncated ==
    bs_last'.n > Len(C27Remaining) =>
        /\ bs_last'.got = Len(C27Remaining)
        /\ bs_last'.res = WFromBits(C27Remaining)

\* gst_nal_bs_eos holds exactly when no byte of the range is left and no
\* unread bit is in the cache
C27EosExact ==
    gst_nal_bs_eos(bs', bs_data) <=>
        (bs'.pos >= Len(bs_data) /\ bs'.head = 0)

\* a read after eos returns 0
C27AfterEos ==
    gst_nal_bs_eos(bs, bs_data) =>
        /\ bs_last'.res = WZero
        /\ bs_last'.got = 0
        /\ gst_nal_bs_eos(bs', bs_data)

\* C27: in any sequence of gst_nal_bs_read calls of 0 to 32 bits over any
\* range, a read of more bits than remain returns the remaining bits as a
\* number, gst_nal_bs_eos holds exactly when no byte is left and the cache
\* holds no unread bit, and every read after eos returns 0
C27_TruncatedReads == [][C27Truncated /\ C27EosExact /\ C27AfterEos]_vars

\* a read of 32 bits was cut short to the bits that were left, between 1 and
\* 31, and the reader is at eos
C27_Witness ==
    /\ bs_last.n = 32
    /\ bs_last.got \in 1..31
    /\ gst_nal_bs_eos(bs, bs_data)
    /\ Len(bs_data) >= 2

\* the reader after the counting loop of gst_nal_bs_read_ue over ue_data
C28Counted == UeCount(gst_nal_bs_init(ue_data), ue_data, 0)

\* what gst_nal_bs_read (bs, i) returns after the counting loop
C28Suffix == gst_nal_bs_read(C28Counted.bs, ue_data, C28Counted.i).res

\* 2^i - 1 + suffix is below 2^32
C28Fits(i, w) ==
    WOnes(i).hi + w.hi + ((WOnes(i).lo + w.lo) \div 65536) < 65536

\* C28: gst_nal_bs_read_ue returns on every range, the empty range and
\* ranges of zero bytes included, with a counted i of at most 32, and its
\* result is 2^i - 1 + gst_nal_bs_read (bs, i) as an unsigned number, with no
\* wrap-around at 2^32
C28_UeTerminatesExact ==
    ue_res.done =>
        /\ ue_res.i \in 0..32
        /\ ue_res.i = C28Counted.i
        /\ C28Fits(ue_res.i, C28Suffix)
        /\ ue_res.res = WAdd(WOnes(ue_res.i), C28Suffix)

\* a range that starts with 32 zero bits was decoded: the count stopped at 32
C28_Witness ==
    /\ ue_res.done
    /\ ue_res.i = 32
    /\ Len(ue_data) >= 5

\* slice_type mod 5 is 2 (I) or 4 (SI)
C29Intra(st) == st % 5 \in {2, 4}

\* the slice_type coded in the first NAL unit of a buffer
C29SliceType(bytes) == UnitSliceType([bytes |-> bytes], nal_length_size)

\* every slice the forward path emitted is a key unit exactly when it is intra
C29Forward ==
    last.op = "chain_forward" =>
        \A i \in 1..Len(out) :
            (UnitHasNal(out[i], nal_length_size)
                /\ UnitIsSlice(out[i], nal_length_size)) =>
                (out[i].delta_unit = FALSE
                    <=> C29Intra(C29SliceType(out[i].bytes)))

\* every slice in the decode queue is marked an I frame exactly when it is
\* intra
C29Reverse ==
    \A k \in 1..Len(decode) :
        decode[k].slice =>
            (decode[k].i_frame <=> C29Intra(C29SliceType(decode[k].buffer)))

\* C29: on the forward path and on the reverse path a slice of any
\* slice_type, above 9 too, is classified by slice_type mod 5 and is treated
\* as intra (a key unit, an I frame) exactly when slice_type mod 5 is 2 or 4
C29_SliceTypeMod5 == C29Forward /\ C29Reverse

\* a slice of slice_type 12 was emitted by the forward path, or is in the
\* decode queue of the reverse path
C29_Witness ==
    \/ /\ last.op = "chain_forward"
       /\ \E i \in 1..Len(out) :
             /\ UnitHasNal(out[i], nal_length_size)
             /\ UnitIsSlice(out[i], nal_length_size)
             /\ C29SliceType(out[i].bytes) = 12
    \/ \E k \in 1..Len(decode) :
          decode[k].slice /\ C29SliceType(decode[k].buffer) = 12

\* every SPS record of the store has cpb_cnt_minus1 <= 31
C31StoreBounded ==
    \A id \in DOMAIN sps_buffers : sps_buffers[id].cpb_cnt_minus1 <= 31

\* the last call was gst_sei_decode_buffering_period
C31SeiCase == dec.op = "decode_buffering_period"

\* C31: in every state of the parameter-set store every SPS record has
\* cpb_cnt_minus1 <= 31, also after gst_vui_decode_hrd_parameters rejected a
\* value, and gst_sei_decode_buffering_period writes
\* initial_cpb_removal_delay only at indices 0..31
C31_CpbCntBounded ==
    /\ C31StoreBounded
    /\ C31SeiCase => DOMAIN dec.delay \subseteq 0..31

\* a buffering period SEI was decoded against an SPS record with NAL HRD
\* parameters, and delays were written
C31_Witness ==
    /\ C31SeiCase
    /\ h_sps \in DOMAIN sps_buffers
    /\ sps_buffers[h_sps].nal_hrd_parameters_present_flag = 1
    /\ 0 \in DOMAIN dec.delay

(***************************************************************************)
(* C32: I slices come first in the decode queue                            *)
(***************************************************************************)
\* no link of the queue that is a slice but not an I frame comes before a
\* link that is an I frame
C32KeyFirst(queue) ==
    \A j \in 1..Len(queue), k \in 1..Len(queue) :
        (j < k /\ queue[j].slice /\ ~queue[j].i_frame) => ~queue[k].i_frame

\* gst_h264_parse_queue_buffer flushed the queue
C32Flushed == qb.called /\ qb.flushed

\* C32: in every state the decode queue, read from its head, which is
\* emitted first, holds no non-I slice before an I slice; every flush by
\* gst_h264_parse_queue_buffer pushes the queue it found in that order, so
\* all the non-I slices of the group follow its last I slice
C32_KeyframeFirst ==
    /\ C32KeyFirst(decode)
    /\ C32Flushed =>
          /\ C32KeyFirst(qb.pre_decode)
          /\ Len(qb.pushed) = Len(qb.pre_decode)
          /\ \A k \in 1..Len(qb.pushed) :
                /\ qb.pushed[k].bytes = qb.pre_decode[k].buffer
                /\ qb.pushed[k].delta_unit = ~qb.pre_decode[k].i_frame

\* a flush pushed an I slice and a non-I slice behind it
C32_Witness ==
    /\ C32Flushed
    /\ Len(qb.pushed) >= 2
    /\ qb.pre_decode[1].i_frame
    /\ \E k \in 2..Len(qb.pre_decode) :
          qb.pre_decode[k].slice /\ ~qb.pre_decode[k].i_frame

(***************************************************************************)
(* C33: the forward path keeps every byte                                  *)
(***************************************************************************)
\* the call that began the run call c belongs to: the last one up to c whose
\* buffer was flagged DISCONT, or the first call
C33RunStart(c) ==
    IF \E d \in 1..c : trace[d].discont
    THEN CHOOSE d \in 1..c : /\ trace[d].discont
                             /\ \A e \in (d + 1)..c : ~trace[e].discont
    ELSE 1

\* the buffers of the calls d..c, in order
RECURSIVE C33Received(_, _)
C33Received(d, c) ==
    IF d > c THEN <<>> ELSE trace[d].chunk \o C33Received(d + 1, c)

\* the bytes of the units the calls d..c pushed, in order
RECURSIVE C33Emitted(_, _)
C33Emitted(d, c) ==
    IF d > c THEN <<>>
    ELSE Flatten(UnitBytes(trace[d].units)) \o C33Emitted(d + 1, c)

\* C33: after every call of the forward path the bytes of all units pushed
\* since the last buffer flagged DISCONT, followed by the bytes the adapter
\* holds, are the bytes of the buffers received since that buffer, it
\* included: none dropped, none twice, none out of order
C33_ForwardBytesKept ==
    /\ \A c \in 1..Len(trace) :
          C33Emitted(C33RunStart(c), c) \o trace[c].held
              = C33Received(C33RunStart(c), c)
    /\ Len(trace) > 0 => adapter = trace[Len(trace)].held

\* three calls and more since the last DISCONT, units pushed by two of them,
\* and bytes still held
C33_Witness ==
    /\ Len(trace) >= 4
    /\ trace[1].discont /\ trace[1].held # <<>>
    /\ C33RunStart(Len(trace)) = 2
    /\ trace[2].units # <<>>
    /\ trace[4].units # <<>>
    /\ adapter # <<>>

(***************************************************************************)
(* C34: reverse playback of a byte stream emits every byte by end of       *)
(* stream                                                                  *)
(***************************************************************************)
\* the buffers delivered, without the end of stream
C34Buffers == SelectSeq(trace, LAMBDA e : e.op = "chain")

\* where the last group of es begins: at its last buffer flagged DISCONT, or
\* at its first buffer
C34GroupStart(es) ==
    IF \E d \in 1..Len(es) : es[d].discont
    THEN CHOOSE d \in 1..Len(es) : /\ es[d].discont
                                   /\ \A e \in (d + 1)..Len(es) : ~es[e].discont
    ELSE 1

\* the bytes of es in the order of time: the group delivered last is the
\* earliest, and within a group the buffers are in order
RECURSIVE C34InTime(_)
C34InTime(es) ==
    IF es = <<>> THEN <<>>
    ELSE Flatten([k \in 1..(Len(es) - C34GroupStart(es) + 1) |->
                      es[C34GroupStart(es) + k - 1].buffer])
            \o C34InTime(SubSeq(es, 1, C34GroupStart(es) - 1))

C34HasStartCode(bytes) == Len(bytes) >= 4 /\ SubSeq(bytes, 1, 4) = StartCode

\* the places of data where a start code begins, and the unit that begins
\* at one of them
C34Starts(data) == {i \in 1..(Len(data) - 3) : SubSeq(data, i, i + 3) = StartCode}
C34UnitAt(data, i) ==
    SubSeq(data, i,
           IF \E j \in C34Starts(data) : j > i
           THEN (CHOOSE j \in C34Starts(data) :
                    j > i /\ \A m \in C34Starts(data) : m > i => m >= j) - 1
           ELSE Len(data))

\* every unit pushed, from the first call to the flush at end of stream
C34Pushed ==
    UnitBytes(Flatten([k \in 1..Len(trace) |-> trace[k].pushed]) \o out)

C34Count(seq, x) == Cardinality({k \in DOMAIN seq : seq[k] = x})

\* end of stream was handled to its end, after buffers whose earliest in
\* time begins with a start code
C34Case ==
    /\ last.op = "eos"
    /\ pc = "idle"
    /\ C34Buffers # <<>>
    /\ C34HasStartCode(C34Buffers[C34GroupStart(C34Buffers)].buffer)

\* C34: in byte-stream mode, after any buffers and discontinuities of
\* reverse playback whose buffer earliest in time begins with a start code,
\* end of stream leaves the gather list, the leftover and the decode queue
\* empty, every byte received has been pushed in exactly one unit (the units
\* pushed are the units of the stream in the order of time, each once), and
\* every unit pushed begins with 00 00 00 01
C34_ReverseComplete ==
    C34Case =>
        /\ gather = <<>>
        /\ prev = <<>>
        /\ decode = <<>>
        /\ \A k \in 1..Len(C34Pushed) : C34HasStartCode(C34Pushed[k])
        /\ Len(C34Pushed) = Cardinality(C34Starts(C34InTime(C34Buffers)))
        /\ \A i \in C34Starts(C34InTime(C34Buffers)) :
              C34Count(C34Pushed, C34UnitAt(C34InTime(C34Buffers), i))
                = Cardinality({j \in C34Starts(C34InTime(C34Buffers)) :
                                 C34UnitAt(C34InTime(C34Buffers), j)
                                   = C34UnitAt(C34InTime(C34Buffers), i)})

\* three buffers in two groups, a start code across the boundary of two
\* buffers, and at least three units pushed by end of stream
C34_Witness ==
    /\ C34Case
    /\ Len(C34Buffers) = 3
    /\ C34GroupStart(C34Buffers) > 1
    /\ \E k \in 1..3 : ~C34HasStartCode(C34Buffers[k].buffer)
    /\ Len(C34Pushed) >= 3

(***************************************************************************)
(* C35: the delta_unit flag and the bytes behind the unit                  *)
(***************************************************************************)
\* the units the forward path pushes in byte-stream mode from an empty
\* adapter that is given data
C35Run(data) ==
    FwdLoop(data, FALSE, <<>>, FALSE, nal_length_size, FALSE, build_shl32).out

\* the last call pushed a unit in byte-stream mode
C35Case == last.op = "chain_forward" /\ ~packetized /\ out # <<>>

\* C35: on the forward path in byte-stream mode the delta_unit flag of a
\* pushed unit depends on the bytes of the unit only: a second run that
\* pushes the same bytes as its first unit, with other bytes buffered behind
\* them, gives it the same flag; units too short to hold first_mb_in_slice
\* and slice_type are included
C35_DeltaUnitLocal ==
    C35Case =>
        \A f \in LocalFollowers :
            (/\ C35Run(out[1].bytes \o f) # <<>>
             /\ C35Run(out[1].bytes \o f)[1].bytes = out[1].bytes)
                => C35Run(out[1].bytes \o f)[1].delta_unit = out[1].delta_unit

\* a slice cut off after its header byte was pushed
C35_Witness ==
    /\ C35Case
    /\ out[1].bytes = StartCode \o <<101>>

====
